---- MODULE Spec2Model ----
(***************************************************************************)
(* Model of the MCell4 diffuse-and-react kernel                            *)
(* (src/src4/diffuse_react_event.cpp).                                     *)
(*                                                                         *)
(* Positions, displacements and times are fixed-point integers: one length *)
(* unit is a quarter of a subpartition edge, one time unit a quarter of    *)
(* the diffusion time step.  Ratios that the code computes in floating     *)
(* point (collision time, crossing time of a subpartition boundary) are    *)
(* kept exact as numerator/denominator pairs and compared by cross         *)
(* multiplication.                                                         *)
(***************************************************************************)
EXTENDS Integers, Sequences, FiniteSets, TLC

\* ------------------------------------------------------------- bounds ----

\* number of diffuse-react events (iterations) that are simulated
MaxEvents == 2

\* ------------------------------------------------------ configuration ----

\* world_constants.subpartition_edge_length, in length units
subpartition_edge_length == 4

\* world_constants.rx_radius_3d, in length units
rx_radius_3d == 2

\* number of subpartitions along one axis of the partition
num_subpartitions_per_partition == 8

\* diffuse_react_event_t::diffusion_time_step, in time units
diffusion_time_step == 4

\* FOREVER of mcell_structs.h: larger than every time of the run; adding a
\* finite time to it leaves it unchanged (as in double arithmetic)
FOREVER == 1000

\* TIME_INVALID: the remaining_time_step handed over by outcome_unimolecular
TIME_INVALID == 0 - 1

\* ------------------------------------------------------------ vectors ----

vec3(x, y, z) == <<x, y, z>>

vadd(a, b) == <<a[1] + b[1], a[2] + b[2], a[3] + b[3]>>

vsub(a, b) == <<a[1] - b[1], a[2] - b[2], a[3] - b[3]>>

dot(a, b) == a[1] * b[1] + a[2] * b[2] + a[3] * b[3]

abs(x) == IF x < 0 THEN 0 - x ELSE x

\* ---------------------------------------------------------- partition ----

\* partition_t::get_origin_corner
origin_corner == <<0, 0, 0>>

partition_edge_length == num_subpartitions_per_partition * subpartition_edge_length

\* partition_t::in_this_partition
in_this_partition(pos) ==
  \A k \in 1..3 : pos[k] >= origin_corner[k]
                  /\ pos[k] < origin_corner[k] + partition_edge_length

\* floor of a ratio with a positive denominator
floor_div(n, den) == n \div den

\* partition_t::get_subpart_3d_indices: (pos - origin) * edge_length_rcp, floored
get_subpart_3d_indices(pos) ==
  [k \in 1..3 |-> floor_div(pos[k] - origin_corner[k], subpartition_edge_length)]

\* partition_t::get_subpart_index_from_3d_indices (also named
\* get_subpartition_index_from_3d_indices): no range check, so an axis index
\* outside 0..N-1 aliases another subpartition or leaves 0..N^3-1
get_subpart_index_from_3d_indices(x, y, z) ==
  x + y * num_subpartitions_per_partition
    + z * num_subpartitions_per_partition * num_subpartitions_per_partition

get_subpartition_index_from_3d_indices(i3) ==
  get_subpart_index_from_3d_indices(i3[1], i3[2], i3[3])

\* partition_t::get_subpart_3d_indices_from_index
get_subpart_3d_indices_from_index(index) ==
  <<index % num_subpartitions_per_partition,
    (index \div num_subpartitions_per_partition) % num_subpartitions_per_partition,
    index \div (num_subpartitions_per_partition * num_subpartitions_per_partition)>>

\* partition_t::get_subpart_index
get_subpart_index(pos) ==
  get_subpartition_index_from_3d_indices(get_subpart_3d_indices(pos))

valid_subpart_index(index) ==
  index >= 0
  /\ index < num_subpartitions_per_partition * num_subpartitions_per_partition
               * num_subpartitions_per_partition

\* ------------------------------------------- subpartitions of one ray ----

\* collect_neighboring_subparts: the subpartitions next to subpart_indices
\* that lie within rx_radius of the point posn/den (a point of the ray has
\* rational coordinates: numerators posn over the common denominator den)
collect_neighboring_subparts(posn, den, subpart_indices, rx_radius, subpart_edge_len) ==
  LET rel(k)      == posn[k] - origin_corner[k] * den
      boundary(k) == subpart_indices[k] * subpart_edge_len * den
      dir_used(k) ==
        IF rel(k) - rx_radius * den < boundary(k) THEN 0 - 1
        ELSE IF rel(k) + rx_radius * den > boundary(k) + subpart_edge_len * den THEN 1
        ELSE 0
      x == subpart_indices[1]
      y == subpart_indices[2]
      z == subpart_indices[3]
      xd == dir_used(1)
      yd == dir_used(2)
      zd == dir_used(3)
  IN  (IF xd # 0 THEN {get_subpart_index_from_3d_indices(x + xd, y, z)} ELSE {})
      \cup (IF yd # 0 THEN {get_subpart_index_from_3d_indices(x, y + yd, z)} ELSE {})
      \cup (IF zd # 0 THEN {get_subpart_index_from_3d_indices(x, y, z + zd)} ELSE {})
      \cup (IF xd # 0 /\ yd # 0
              THEN {get_subpart_index_from_3d_indices(x + xd, y + yd, z)} ELSE {})
      \cup (IF xd # 0 /\ zd # 0
              THEN {get_subpart_index_from_3d_indices(x + xd, y, z + zd)} ELSE {})
      \cup (IF yd # 0 /\ zd # 0
              THEN {get_subpart_index_from_3d_indices(x, y + yd, z + zd)} ELSE {})
      \cup (IF xd # 0 /\ yd # 0 /\ zd # 0
              THEN {get_subpart_index_from_3d_indices(x + xd, y + yd, z + zd)} ELSE {})

\* longest walk of the subpartition walker that the model follows
MaxWalk == 3 * num_subpartitions_per_partition

\* the do-while loop of collect_crossed_subparts.  The current position is
\* pos + displacement * tn/td; every component of displacement is non-zero.
\* The time to the next boundary along axis k is
\*   coll_times[k] = (sp_edges[k] - curr_pos[k]) / displacement[k],
\* a ratio cn(k)/cd(k) with cd(k) > 0.
RECURSIVE walk_subparts(_, _, _, _, _, _, _, _, _)
walk_subparts(pos, displacement, tn, td, curr_subpart_indices, dest_subpart_index, rx_radius, sp_edge_length, fuel) ==
  LET dir_urb_direction(k) == IF displacement[k] > 0 THEN 1 ELSE 0
      dir_urb_addend(k)    == IF dir_urb_direction(k) = 0 THEN 0 - 1 ELSE 1
      sp_edges(k) == origin_corner[k] + curr_subpart_indices[k] * sp_edge_length
                       + dir_urb_direction(k) * sp_edge_length
      \* curr_pos[k] = currn(k) / td
      currn(k) == pos[k] * td + displacement[k] * tn
      sgn(k)   == IF displacement[k] > 0 THEN 1 ELSE 0 - 1
      cn(k)    == (sp_edges(k) * td - currn(k)) * sgn(k)
      cd(k)    == td * abs(displacement[k])
      nonneg(k) == cn(k) >= 0
      lt(a, b) == cn(a) * cd(b) < cn(b) * cd(a)
      le(a, b) == cn(a) * cd(b) <= cn(b) * cd(a)
      axis == IF nonneg(1) /\ lt(1, 2) /\ le(1, 3) THEN 1
              ELSE IF nonneg(2) /\ le(2, 3) THEN 2
              ELSE IF nonneg(3) THEN 3
              ELSE 0
  IN  IF axis = 0 \/ fuel = 0
        THEN {}
        ELSE
          LET \* curr_pos += displacement * coll_times[axis]: the new position is
              \* pos + displacement * tn2/td2, on the boundary sp_edges(axis)
              tn2 == (sp_edges(axis) - pos[axis]) * sgn(axis)
              td2 == abs(displacement[axis])
              next_indices == [curr_subpart_indices EXCEPT
                                 ![axis] = @ + dir_urb_addend(axis)]
              curr_sp_index == get_subpartition_index_from_3d_indices(next_indices)
              posn2 == [k \in 1..3 |-> pos[k] * td2 + displacement[k] * tn2]
              here == {curr_sp_index}
                        \cup collect_neighboring_subparts(posn2, td2, next_indices,
                                                          rx_radius, sp_edge_length)
          IN  IF curr_sp_index # dest_subpart_index
                THEN here \cup walk_subparts(pos, displacement, tn2, td2, next_indices,
                                             dest_subpart_index, rx_radius,
                                             sp_edge_length, fuel - 1)
                ELSE here

\* collect_crossed_subparts, out-parameter last_subpart_index: the subpartition
\* of the destination vm.pos + displacement
last_subpart_index_stale(vm, displacement) == vm.subpart_index

last_subpart_index(vm, displacement) ==
  LET dest_pos == vadd(vm.pos, displacement)
      src_subpart_indices  == get_subpart_3d_indices_from_index(vm.subpart_index)
      dest_subpart_indices == get_subpart_3d_indices(dest_pos)
  IN  IF dest_subpart_indices # src_subpart_indices
        THEN get_subpartition_index_from_3d_indices(dest_subpart_indices)
        ELSE vm.subpart_index

\* collect_crossed_subparts, out-parameter crossed_subpart_indices
crossed_subpart_indices(vm, displacement, rx_radius, sp_edge_length) ==
  LET dest_pos == vadd(vm.pos, displacement)
      src_subpart_indices  == get_subpart_3d_indices_from_index(vm.subpart_index)
      dest_subpart_indices == get_subpart_3d_indices(dest_pos)
  IN  {vm.subpart_index}
      \cup collect_neighboring_subparts(vm.pos, 1, src_subpart_indices,
                                        rx_radius, sp_edge_length)
      \cup (IF dest_subpart_indices # src_subpart_indices
              THEN walk_subparts(vm.pos, displacement, 0, 1, src_subpart_indices,
                                 get_subpartition_index_from_3d_indices(dest_subpart_indices),
                                 rx_radius, sp_edge_length, MaxWalk)
              ELSE {})
      \cup collect_neighboring_subparts(dest_pos, 1, dest_subpart_indices,
                                        rx_radius, sp_edge_length)

\* ---------------------------------------------------------- reactions ----

NullRx == [name |-> "null", reactants |-> <<>>, products |-> <<>>]

\* the reaction catalogue of the run: A + B -> C, A -> D, C -> (nothing)
RxAB == [name |-> "A+B->C", reactants |-> <<"A", "B">>, products |-> <<"C">>]

RxA == [name |-> "A->D", reactants |-> <<"A">>, products |-> <<"D">>]

RxC == [name |-> "C->0", reactants |-> <<"C">>, products |-> <<>>]

\* world_t::get_reaction: the bimolecular reaction class of two species
get_reaction(s1, s2) ==
  IF {s1, s2} = {"A", "B"} THEN RxAB ELSE NullRx

\* pick_unimol_rx: lookup in world_constants.unimolecular_reactions_map
pick_unimol_rx(species_id) ==
  IF species_id = "A" THEN RxA
  ELSE IF species_id = "C" THEN RxC
  ELSE NullRx

\* the values rng_dbl can make time_of_unimol return, in time units
LifetimeSet == {1, 4, 6, FOREVER}

\* the values pick_displacement can return for a positive time step (every
\* component of a Gaussian draw is non-zero)
DispSet == {<<2, 2, 2>>, <<0 - 1, 2, 0 - 1>>}

\* ---------------------------------------------------------- molecules ----

\* volume_molecule_t as constructed by partition_t::add_volume_molecule:
\* the subpartition is the one of the position, no unimolecular time yet.
\* n_samples, n_steps and t_reached are history: lifetimes sampled, diffusion
\* steps made, and the time up to which the molecule has been simulated
new_volume_molecule(species_id, pos, t_created) ==
  [species_id |-> species_id, pos |-> pos,
   subpart_index |-> get_subpart_index(pos),
   defunct |-> FALSE, newbie |-> TRUE, unimol_rx_time |-> FOREVER,
   n_samples |-> 0, n_steps |-> 0, t_reached |-> t_created]

\* volume_molecule_t::is_defunct
is_defunct(vm) == vm.defunct

\* partition_t::set_molecule_as_defunct
set_molecule_as_defunct(mols, id) == [mols EXCEPT ![id].defunct = TRUE]

\* partition_t::change_molecule_subpartition
change_molecule_subpartition(vm, new_subpart_index) ==
  [vm EXCEPT !.subpart_index = new_subpart_index]

\* partition_t::get_volume_molecule_reactants: the molecules registered in a
\* subpartition whose species reacts with species_id (a defunct molecule is
\* filtered by collide_mol); nothing is registered under an invalid index
get_volume_molecule_reactants(mols, subpart_index, species_id) ==
  IF valid_subpart_index(subpart_index)
    THEN {m \in DOMAIN mols :
            /\ mols[m].subpart_index = subpart_index
            /\ get_reaction(species_id, mols[m].species_id) # NullRx}
    ELSE {}

\* ---------------------------------------------------------- collisions ----

\* collide_mol: the interaction disk test; d/movelen2 is rel_collision_time
collide_mol_no_defunct_check(id, diffused_vm, displacement, cid, colliding_vm, rx_radius) ==
  LET dir == vsub(colliding_vm.pos, diffused_vm.pos)
      d == dot(dir, displacement)
      movelen2 == dot(displacement, displacement)
      dirlen2 == dot(dir, dir)
      sigma2 == rx_radius * rx_radius
  IN  /\ ~(d < 0)
      /\ ~(d > movelen2)
      /\ ~(movelen2 * dirlen2 - d * d > movelen2 * sigma2)
      /\ id # cid

collide_mol(id, diffused_vm, displacement, cid, colliding_vm, rx_radius) ==
  LET dir == vsub(colliding_vm.pos, diffused_vm.pos)
      d == dot(dir, displacement)
      movelen2 == dot(displacement, displacement)
      dirlen2 == dot(dir, dir)
      sigma2 == rx_radius * rx_radius
  IN  /\ ~(d < 0)
      /\ ~(d > movelen2)
      /\ ~(movelen2 * dirlen2 - d * d > movelen2 * sigma2)
      /\ id # cid
      /\ ~is_defunct(colliding_vm)

\* molecules_collision_t built by ray_trace_loop_body; time = d / movelen2
\* (0/0, a NaN, for a zero displacement), pos = diffused_vm.pos + time * displacement
molecules_collision(id, diffused_vm, displacement, cid, colliding_vm) ==
  LET dir == vsub(colliding_vm.pos, diffused_vm.pos)
      d == dot(dir, displacement)
      movelen2 == dot(displacement, displacement)
  IN  [diffused_molecule_idx |-> id,
       colliding_molecule_idx |-> cid,
       rx |-> get_reaction(diffused_vm.species_id, colliding_vm.species_id),
       d |-> d, movelen2 |-> movelen2,
       pos |-> IF movelen2 = 0 THEN diffused_vm.pos
               ELSE [k \in 1..3 |->
                       diffused_vm.pos[k] + floor_div(d * displacement[k], movelen2)]]

\* lhs.time < rhs.time, the comparison handed to std::sort (false with a NaN)
time_less(lhs, rhs) ==
  /\ lhs.movelen2 > 0
  /\ rhs.movelen2 > 0
  /\ lhs.d * rhs.movelen2 < rhs.d * lhs.movelen2

time_equal(lhs, rhs) == ~time_less(lhs, rhs) /\ ~time_less(rhs, lhs)

\* collision.time < EPS
is_immediate(collision) == collision.movelen2 > 0 /\ collision.d = 0

\* the sequence that lists the elements of S by ascending key (a function on S)
seq_by_key(S, key) ==
  CHOOSE f \in [1..Cardinality(S) -> S] :
    \A i, j \in 1..Cardinality(S) : i < j => key[f[i]] < key[f[j]]

\* ray_trace: the candidate collisions in the order they are pushed back: the
\* crossed subpartitions by ascending index (flat_set), in each its reactants
\* by ascending id
ray_trace(mols, id, displacement) ==
  LET vm == mols[id]
      crossed == crossed_subpart_indices(vm, displacement, rx_radius_3d,
                                         subpartition_edge_length)
      hit == {c \in DOMAIN mols :
                /\ \E sp \in crossed :
                     c \in get_volume_molecule_reactants(mols, sp, vm.species_id)
                /\ collide_mol(id, vm, displacement, c, mols[c], rx_radius_3d)}
      key == [c \in hit |-> mols[c].subpart_index * (Len(mols) + 1) + c]
      order == seq_by_key(hit, key)
  IN  [i \in 1..Cardinality(hit) |->
         molecules_collision(id, vm, displacement, order[i], mols[order[i]])]

\* std::sort by time: some permutation in which no element is followed by one
\* of a smaller time; the order of elements of equal time is unspecified
sorted_by_time(collisions) ==
  LET n == Len(collisions)
      perms == {p \in [1..n -> 1..n] : \A i, j \in 1..n : i # j => p[i] # p[j]}
  IN  {[i \in 1..n |-> collisions[p[i]]] : p \in
         {q \in perms : \A i, j \in 1..n :
                          i < j => ~time_less(collisions[q[j]], collisions[q[i]])}}

\* ------------------------------------------------- actions of the queue ----

\* diffuse_or_unimol_react_action_t
diffuse_or_unimol_react_action(id, scheduled_time, type, unimol_rx) ==
  [id |-> id, scheduled_time |-> scheduled_time, type |-> type,
   unimol_rx |-> unimol_rx]

\* new_diffuse_or_unimol_react_actions.push_back
push_front(actions, action) == <<action>> \o actions

push_back(actions, action) == Append(actions, action)

\* calendar_t::get_bucket_index_for_time as a bucket number: one bucket per
\* diffusion time step
bucket_of_time(time) == floor_div(time, diffusion_time_step)

\* partition_t::add_unimolecular_action: calendar insert; within a bucket the
\* actions keep their insertion order
add_unimolecular_action(cal, action) == Append(cal, action)

\* calendar_t::get_bucket_with_index(get_bucket_index_for_time(time)).events
bucket_events(cal, time) ==
  SelectSeq(cal, LAMBDA a : bucket_of_time(a.scheduled_time) = bucket_of_time(time))

\* the pops of diffuse_molecules: the bucket of the event and all older ones
pop_buckets(cal, time) ==
  SelectSeq(cal, LAMBDA a : bucket_of_time(a.scheduled_time) > bucket_of_time(time))

\* -------------------------------------------------------------- state ----

VARIABLES
  volume_molecules,   \* partition_t::volume_molecules; the id is the index
  event_time,         \* base_event_t::event_time of the running event
  events_done,        \* events that have returned
  pc,                 \* where diffuse_molecules stands: "existing", "unimol", "new"
  idx,                \* loop index of the running loop of diffuse_molecules
  existing_mols_count,
  new_diffuse_or_unimol_react_actions,
  calendar_for_unimol_rxs,
  rng_draws,          \* numbers drawn from world->rng so far
  fatal,              \* exit(1) was called
  assert_failed,      \* history: an assert of the kernel did not hold
  appended,           \* history: actions pushed in this event, in push order
  handled,            \* history: actions handled in this event, in order
  last                \* history: what the last call did

\* the state of the wall tests of one ray (collision_utils.inc)
VARIABLES
  scene,              \* the ray and the walls of its subpartition (does not change)
  wall_displacement,  \* the displacement of the ray, changed by a REDO
  wall_it,            \* position of the iterator it in wall_indices
  wall_collisions,    \* collision_vector_t wall_collisions
  wall_pc,            \* "collect", "test" (collide_wall_test calls), "done", "off"
  wall_tested,        \* history: walls tested since the list was last cleared
  wall_last,          \* history: what the last wall test did
  closest_hit,        \* closest_hit_time and closest_hit_pos of collect_wall_collisions
  displacement_up_to_wall_collision  \* the out-parameter of collect_wall_collisions

wall_vars == <<scene, wall_displacement, wall_it, wall_collisions, wall_pc, wall_tested,
               wall_last, closest_hit, displacement_up_to_wall_collision>>

VARIABLES
  rx_rng,             \* rng_state of the reaction decisions: its randcnt
  rx_decisions,       \* reaction decisions taken so far
  rx_last             \* history: the last reaction decision

rx_vars == <<rx_rng, rx_decisions, rx_last>>

VARIABLES
  cal_queue,          \* Calendar::queue, a deque of buckets
  cal_inserted,       \* history: events inserted so far
  cal_popped,         \* history: the events pop_next returned, in order
  cal_pc              \* "insert", "pop", "off"

cal_vars == <<cal_queue, cal_inserted, cal_popped, cal_pc>>

VARIABLES
  sm_walls,           \* the grid of every wall: its tiles and whether it exists
  sm_mols,            \* the surface molecules: wall_index, grid_tile_index, pos
  sm_pc,              \* "run", "error" (mcell_internal_error), "off"
  sm_last             \* history: the last move, with the state before it

sm_vars == <<sm_walls, sm_mols, sm_pc, sm_last>>

VARIABLES
  sp_wall,            \* the wall handed to wall_subparts_collision_test
  sp_colliding_subparts, \* SubpartIndicesVector colliding_subparts
  sp_pc               \* "call", "done", "off"

sp_vars == <<sp_wall, sp_colliding_subparts, sp_pc>>

VARIABLES
  walker,             \* one call of CollisionUtil::collect_crossed_subparts, or <<>>
  trav,               \* one walk of a surface point over a shared edge, or <<>>
  region,             \* one call of is_point_inside_region, or <<>>
  prod,               \* a molecule table the reaction outcomes are applied to, or <<>>
  refl,               \* one call of reflect_or_periodic_bc, or <<>>
  cvol,               \* one initialization of the counted volumes, or <<>>
  geom,               \* one GeometryObject handed to check_semantics, or <<>>
  restr               \* one call of the restricted-region test of two walls, or <<>>

\* what the steps of the diffuse-react kernel leave alone
other_vars == <<wall_vars, rx_vars, cal_vars, sm_vars, sp_vars, walker, trav, region, prod, refl, cvol, geom, restr>>

kernel_vars == <<volume_molecules, event_time, events_done, pc, idx, existing_mols_count,
                 new_diffuse_or_unimol_react_actions, calendar_for_unimol_rxs, rng_draws,
                 fatal, assert_failed, appended, handled, last>>

vars == <<kernel_vars, other_vars>>

\* what the wall tests leave alone
outside_walls == <<kernel_vars, rx_vars, cal_vars, sm_vars, sp_vars, walker, trav, region, prod, refl, cvol, geom, restr>>

\* what the reaction decisions leave alone
outside_rx == <<kernel_vars, wall_vars, cal_vars, sm_vars, sp_vars, walker, trav, region, prod, refl, cvol, geom, restr>>

\* what the scheduler's calendar leaves alone
outside_cal == <<kernel_vars, wall_vars, rx_vars, sm_vars, sp_vars, walker, trav, region, prod, refl, cvol, geom, restr>>

\* what the moves of surface molecules leave alone
outside_sm == <<kernel_vars, wall_vars, rx_vars, cal_vars, sp_vars, walker, trav, region, prod, refl, cvol, geom, restr>>

\* what the distribution of a wall to subpartitions leaves alone
outside_sp == <<kernel_vars, wall_vars, rx_vars, cal_vars, sm_vars, walker, trav, region, prod, refl, cvol, geom, restr>>

\* what the subpartition walker leaves alone
outside_walker == <<kernel_vars, wall_vars, rx_vars, cal_vars, sm_vars, sp_vars, trav, region, prod, refl, cvol, geom, restr>>

\* what the walk over a shared edge leaves alone
outside_trav == <<kernel_vars, wall_vars, rx_vars, cal_vars, sm_vars, sp_vars, walker, region, prod, refl, cvol, geom, restr>>

\* what the region test leaves alone
outside_region == <<kernel_vars, wall_vars, rx_vars, cal_vars, sm_vars, sp_vars, walker, trav, prod, refl, cvol, geom, restr>>

\* what the reaction outcomes on the separate table leave alone
outside_prod == <<kernel_vars, wall_vars, rx_vars, cal_vars, sm_vars, sp_vars, walker, trav, region, refl, cvol, geom, restr>>

\* what a reflection leaves alone
outside_refl == <<kernel_vars, wall_vars, rx_vars, cal_vars, sm_vars, sp_vars, walker, trav, region, prod, cvol, geom, restr>>

\* what the counted volumes leave alone
outside_cvol == <<kernel_vars, wall_vars, rx_vars, cal_vars, sm_vars, sp_vars, walker, trav, region, prod, refl, geom, restr>>

\* what the semantic check of a geometry object leaves alone
outside_geom == <<kernel_vars, wall_vars, rx_vars, cal_vars, sm_vars, sp_vars, walker, trav, region, prod, refl, cvol, restr>>

\* what the restricted-region test leaves alone
outside_restr == <<kernel_vars, wall_vars, rx_vars, cal_vars, sm_vars, sp_vars, walker, trav, region, prod, refl, cvol, geom>>

NoCollisions == <<>>

LastNone ==
  [kind |-> "none", id |-> 0, start_pos |-> <<0, 0, 0>>, tleft |-> 0, prev |-> 0,
   rem |-> 0, shortened |-> FALSE, urx |-> 0, sampled |-> FALSE,
   inserted |-> NoCollisions, sorted |-> NoCollisions, evaluated |-> 0,
   fired |-> 0, products |-> {}, seen_defunct |-> {}, rng_before |-> 0,
   time |-> 0, reached |-> 0]

\* the released molecules: an A and two B that the displacement <<2,2,2>> of
\* the A meets at the same collision time; or an A, a B beside the path of that
\* displacement (collision time 0) and a second A ahead of the B; or an A and
\* a B in the last subpartition, which that displacement takes to the border
\* of the partition and beyond
InitialMolecules ==
  { << new_volume_molecule("A", <<14, 14, 14>>, 0),
       new_volume_molecule("B", <<15, 15, 15>>, 0),
       new_volume_molecule("B", <<16, 14, 15>>, 0) >>,
    << new_volume_molecule("A", <<14, 14, 14>>, 0),
       new_volume_molecule("B", <<13, 15, 14>>, 0),
       new_volume_molecule("A", <<14, 16, 15>>, 0) >>,
    << new_volume_molecule("A", <<29, 29, 29>>, 0),
       new_volume_molecule("B", <<30, 30, 30>>, 0) >> }

\* the kernel before the first event, for a given table of molecules
kernel_init(mols) ==
  /\ volume_molecules = mols
  /\ event_time = 0
  /\ events_done = 0
  /\ pc = "existing"
  /\ idx = 1
  /\ existing_mols_count = Len(mols)
  /\ new_diffuse_or_unimol_react_actions = <<>>
  /\ calendar_for_unimol_rxs = <<>>
  /\ rng_draws = 0
  /\ fatal = FALSE
  /\ assert_failed = FALSE
  /\ appended = <<>>
  /\ handled = <<>>
  /\ last = LastNone

\* no ray is tested against walls
walls_off ==
  /\ scene = <<>>
  /\ wall_displacement = <<>>
  /\ wall_it = 0
  /\ wall_collisions = <<>>
  /\ wall_pc = "off"
  /\ wall_tested = {}
  /\ wall_last = <<>>
  /\ closest_hit = <<>>
  /\ displacement_up_to_wall_collision = <<>>

\* no reaction decision is taken
rx_off ==
  /\ rx_rng = <<>>
  /\ rx_decisions = 0
  /\ rx_last = <<>>

\* the scheduler's calendar is not used
cal_off ==
  /\ cal_queue = <<>>
  /\ cal_inserted = 0
  /\ cal_popped = <<>>
  /\ cal_pc = "off"

\* no surface molecule is moved
sm_off ==
  /\ sm_walls = <<>>
  /\ sm_mols = <<>>
  /\ sm_pc = "off"
  /\ sm_last = <<>>

\* no wall is distributed to subpartitions
sp_off ==
  /\ sp_wall = <<>>
  /\ sp_colliding_subparts = <<>>
  /\ sp_pc = "off"

\* no subpartition walk outside the kernel
walker_off == walker = <<>>

\* no surface point crosses an edge
trav_off == trav = <<>>

\* no region test
region_off == region = <<>>

\* no separate molecule table
prod_off == prod = <<>>

\* no reflection, no counted volumes, no geometry object and no restricted-
\* region test are modelled
refl_off == refl = <<>>

cvol_off == cvol = <<>>

geom_off == geom = <<>>

restr_off == restr = <<>>

Init ==
  /\ walker_off
  /\ trav_off
  /\ region_off
  /\ prod_off
  /\ refl_off
  /\ cvol_off
  /\ geom_off
  /\ restr_off
  /\ walls_off
  /\ rx_off
  /\ cal_off
  /\ sm_off
  /\ sp_off
  /\ \E mols \in InitialMolecules : kernel_init(mols)

\* the part of the state that the reaction routines change
Kernel ==
  [mols |-> volume_molecules,
   queue |-> new_diffuse_or_unimol_react_actions,
   cal |-> calendar_for_unimol_rxs,
   appended |-> appended]

\* ------------------------------------------------------------ products ----

\* the loop of outcome_products_random over rx->products, from product i on
RECURSIVE place_products(_, _, _, _, _)
place_products(k, products, pos, scheduled_time, i) ==
  IF i > Len(products)
    THEN k
    ELSE
      LET new_vm == new_volume_molecule(products[i], pos, event_time + scheduled_time)
          new_id == Len(k.mols) + 1
          action == diffuse_or_unimol_react_action(new_id, scheduled_time,
                                                   "DIFFUSE", NullRx)
      IN  place_products([k EXCEPT !.mols = Append(@, new_vm),
                                   !.queue = push_back(@, action),
                                   !.appended = Append(@, action)],
                         products, pos, scheduled_time, i + 1)

\* outcome_products_random; reaction_time is the ratio rt_n / rt_d
outcome_products_random(k, rx, pos, rt_n, rt_d, remaining_time_step) ==
  LET scheduled_time ==
        IF Len(rx.reactants) = 2
          THEN diffusion_time_step
                 - (remaining_time_step - floor_div(rt_n * remaining_time_step, rt_d))
          ELSE floor_div(rt_n, rt_d)
  IN  place_products(k, rx.products, pos, scheduled_time, 1)

\* outcome_bimolecular
outcome_bimolecular_at_start(k, collision, remaining_time_step) ==
  LET k1 == outcome_products_random(k, collision.rx,
                                    k.mols[collision.diffused_molecule_idx].pos,
                                    collision.d, collision.movelen2, remaining_time_step)
  IN  [k1 EXCEPT !.mols =
         set_molecule_as_defunct(
           set_molecule_as_defunct(@, collision.diffused_molecule_idx),
           collision.colliding_molecule_idx)]

outcome_bimolecular(k, collision, remaining_time_step) ==
  LET k1 == outcome_products_random(k, collision.rx, collision.pos,
                                    collision.d, collision.movelen2, remaining_time_step)
  IN  [k1 EXCEPT !.mols =
         set_molecule_as_defunct(
           set_molecule_as_defunct(@, collision.diffused_molecule_idx),
           collision.colliding_molecule_idx)]

\* outcome_unimolecular
outcome_unimolecular(k, id, time_from_event_start, unimol_rx) ==
  LET k1 == outcome_products_random(k, unimol_rx, k.mols[id].pos,
                                    time_from_event_start, 1, TIME_INVALID)
  IN  [k1 EXCEPT !.mols = set_molecule_as_defunct(@, id)]

\* ------------------------------------------------- unimolecular clock ----

\* create_unimol_rx_action; time_from_now is what compute_unimol_lifetime drew
create_unimol_rx_action_from_event_start(k, id, remaining_time_step, ev_time, time_from_now) ==
  LET curr_time == ev_time
      rx == pick_unimol_rx(k.mols[id].species_id)
      scheduled_time == IF time_from_now = FOREVER THEN FOREVER
                        ELSE curr_time + time_from_now
      action == diffuse_or_unimol_react_action(id, scheduled_time, "UNIMOL_REACT", rx)
      k1 == [k EXCEPT !.mols[id].unimol_rx_time = scheduled_time,
                      !.mols[id].n_samples = @ + 1]
  IN  IF rx = NullRx
        THEN k
        ELSE IF scheduled_time < ev_time + diffusion_time_step
          THEN [k1 EXCEPT !.queue = push_back(@, action),
                          !.appended = Append(@, action)]
          ELSE [k1 EXCEPT !.cal = add_unimolecular_action(@, action)]

\* the same without the in-event queue: every action goes to the calendar
create_unimol_rx_action_always_calendar(k, id, remaining_time_step, ev_time, time_from_now) ==
  LET curr_time == ev_time + diffusion_time_step - remaining_time_step
      rx == pick_unimol_rx(k.mols[id].species_id)
      scheduled_time == IF time_from_now = FOREVER THEN FOREVER
                        ELSE curr_time + time_from_now
      action == diffuse_or_unimol_react_action(id, scheduled_time, "UNIMOL_REACT", rx)
      k1 == [k EXCEPT !.mols[id].unimol_rx_time = scheduled_time,
                      !.mols[id].n_samples = @ + 1]
  IN  IF rx = NullRx
        THEN k
        ELSE [k1 EXCEPT !.cal = add_unimolecular_action(@, action)]

create_unimol_rx_action(k, id, remaining_time_step, ev_time, time_from_now) ==
  LET curr_time == ev_time + diffusion_time_step - remaining_time_step
      rx == pick_unimol_rx(k.mols[id].species_id)
      scheduled_time == IF time_from_now = FOREVER THEN FOREVER
                        ELSE curr_time + time_from_now
      action == diffuse_or_unimol_react_action(id, scheduled_time, "UNIMOL_REACT", rx)
      k1 == [k EXCEPT !.mols[id].unimol_rx_time = scheduled_time,
                      !.mols[id].n_samples = @ + 1]
  IN  IF rx = NullRx
        THEN k
        ELSE IF scheduled_time < ev_time + diffusion_time_step
          THEN [k1 EXCEPT !.queue = push_back(@, action),
                          !.appended = Append(@, action)]
          ELSE [k1 EXCEPT !.cal = add_unimolecular_action(@, action)]

\* the values time_of_unimol can return for this molecule (one dummy value
\* when no lifetime is drawn)
lifetime_choices(vm) ==
  IF vm.newbie /\ pick_unimol_rx(vm.species_id) # NullRx THEN LifetimeSet ELSE {FOREVER}

\* diffuse_single_molecule, the ACT_NEWBIE block
newbie_block_keeps_flag(k, id, time_up_to_event_end, ev_time, time_from_now) ==
  IF k.mols[id].newbie
    THEN create_unimol_rx_action(k, id, time_up_to_event_end, ev_time, time_from_now)
    ELSE k

newbie_block(k, id, time_up_to_event_end, ev_time, time_from_now) ==
  IF k.mols[id].newbie
    THEN [create_unimol_rx_action(k, id, time_up_to_event_end, ev_time, time_from_now)
            EXCEPT !.mols[id].newbie = FALSE]
    ELSE k

\* diffuse_single_molecule, the choice of remaining_time_step; ok tells whether
\* the two asserts hold
remaining_time_step_from_event_start(vm, time_up_to_event_end, ev_time) ==
  LET event_time_end == ev_time + diffusion_time_step
      prev_time_from_event_start == diffusion_time_step - time_up_to_event_end
      new_time_from_event_start == vm.unimol_rx_time - ev_time
  IN  IF vm.unimol_rx_time < event_time_end
        THEN [shortened |-> TRUE,
              prev |-> prev_time_from_event_start,
              rem |-> IF time_up_to_event_end < new_time_from_event_start
                        THEN time_up_to_event_end ELSE new_time_from_event_start,
              ok |-> /\ vm.unimol_rx_time >= ev_time
                     /\ new_time_from_event_start >= prev_time_from_event_start]
        ELSE [shortened |-> FALSE,
              prev |-> prev_time_from_event_start,
              rem |-> time_up_to_event_end,
              ok |-> TRUE]

remaining_time_step_of(vm, time_up_to_event_end, ev_time) ==
  LET event_time_end == ev_time + diffusion_time_step
      prev_time_from_event_start == diffusion_time_step - time_up_to_event_end
      new_time_from_event_start == vm.unimol_rx_time - ev_time
  IN  IF vm.unimol_rx_time < event_time_end
        THEN [shortened |-> TRUE,
              prev |-> prev_time_from_event_start,
              rem |-> new_time_from_event_start - prev_time_from_event_start,
              ok |-> /\ vm.unimol_rx_time >= ev_time
                     /\ new_time_from_event_start >= prev_time_from_event_start]
        ELSE [shortened |-> FALSE,
              prev |-> prev_time_from_event_start,
              rem |-> time_up_to_event_end,
              ok |-> TRUE]

\* compute_displacement: scale = space_step * sqrt(remaining_time_step) times
\* three Gaussian draws; zero for a zero time step
displacement_choices(remaining_time_step) ==
  IF remaining_time_step > 0 THEN DispSet ELSE {<<0, 0, 0>>}

\* ----------------------------------------------------- the hot loop ----

\* the collisions the loop of diffuse_single_molecule hands to the reaction
\* gate when the gate fires at index fired (0: it never fires): it skips the
\* immediate ones and breaks after the first reaction
evaluated_collisions(sorted, fired) ==
  {i \in 1..Len(sorted) :
     /\ ~is_immediate(sorted[i])
     /\ (fired = 0 \/ i <= fired)}

\* where test_bimolecular can return a pathway: p = rng_dbl * scaling is below
\* min_noreaction_p for some draws unless scaling = 1/sqrt(0) is infinite
fire_choices(sorted, remaining_time_step) ==
  {0} \cup {i \in 1..Len(sorted) :
              ~is_immediate(sorted[i]) /\ remaining_time_step > 0}

\* diffuse_single_molecule, the early return
diffuse_never_returns_early(vm) == FALSE

diffuse_returns_early(vm) == is_defunct(vm)

\* react_unimol_single_molecule, the early return
react_returns_early(vm) == is_defunct(vm)

\* the tail of diffuse_single_molecule: the molecule is moved unless it
\* reacted; exit(1) comes after the assignment of pos and before
\* change_molecule_subpartition
move_molecule(k, id, was_defunct, new_pos, new_subpart_index) ==
  IF was_defunct
    THEN k
    ELSE [k EXCEPT !.mols[id] =
            IF in_this_partition(new_pos)
              THEN change_molecule_subpartition([@ EXCEPT !.pos = new_pos],
                                                new_subpart_index)
              ELSE [@ EXCEPT !.pos = new_pos]]

\* diffuse_single_molecule(p, vm_id, time_up_to_event_end, event_time_end)
diffuse_single_molecule(vm_id, time_up_to_event_end) ==
  LET vm0 == volume_molecules[vm_id]
  IN  IF diffuse_returns_early(vm0)
        THEN /\ UNCHANGED <<volume_molecules, new_diffuse_or_unimol_react_actions,
                            calendar_for_unimol_rxs, rng_draws, fatal, assert_failed,
                            appended>>
             /\ last' = [LastNone EXCEPT !.kind = "skip", !.id = vm_id,
                                         !.rng_before = rng_draws]
        ELSE
          \E time_from_now \in lifetime_choices(vm0) :
            LET k1 == newbie_block(Kernel, vm_id, time_up_to_event_end, event_time,
                                   time_from_now)
                vm1 == k1.mols[vm_id]
                sampled == vm1.n_samples # vm0.n_samples
                st == remaining_time_step_of(vm1, time_up_to_event_end, event_time)
                k2 == [k1 EXCEPT !.mols[vm_id].n_steps = @ + 1,
                                 !.mols[vm_id].t_reached = event_time + st.prev + st.rem]
                vm == k2.mols[vm_id]
            IN  \E displacement \in displacement_choices(st.rem) :
                  LET inserted == ray_trace(k2.mols, vm_id, displacement)
                      new_pos == vadd(vm.pos, displacement)
                      new_subpart_index == last_subpart_index(vm, displacement)
                      seen == {c \in DOMAIN k2.mols :
                                 /\ is_defunct(k2.mols[c])
                                 /\ collide_mol_no_defunct_check(vm_id, vm, displacement,
                                       c, k2.mols[c], rx_radius_3d)
                                 /\ get_reaction(vm.species_id, k2.mols[c].species_id)
                                      # NullRx}
                  IN  \E sorted \in sorted_by_time(inserted) :
                        \E fired \in fire_choices(sorted, st.rem) :
                          LET evaluated == evaluated_collisions(sorted, fired)
                              k3 == IF fired # 0
                                      THEN outcome_bimolecular(k2, sorted[fired], st.rem)
                                      ELSE k2
                              k4 == move_molecule(k3, vm_id, fired # 0, new_pos,
                                                  new_subpart_index)
                          IN  /\ volume_molecules' = k4.mols
                              /\ new_diffuse_or_unimol_react_actions' = k4.queue
                              /\ calendar_for_unimol_rxs' = k4.cal
                              /\ appended' = k4.appended
                              /\ rng_draws' = rng_draws + (IF sampled THEN 1 ELSE 0) + 3
                                                + Cardinality(evaluated)
                              /\ fatal' = (fired = 0 /\ ~in_this_partition(new_pos))
                              /\ assert_failed' = (assert_failed \/ ~st.ok)
                              /\ last' =
                                   [kind |-> "diffuse", id |-> vm_id,
                                    start_pos |-> vm0.pos,
                                    tleft |-> time_up_to_event_end,
                                    prev |-> st.prev, rem |-> st.rem,
                                    shortened |-> st.shortened,
                                    urx |-> vm.unimol_rx_time,
                                    sampled |-> sampled,
                                    inserted |-> inserted, sorted |-> sorted,
                                    evaluated |-> Cardinality(evaluated),
                                    fired |-> fired,
                                    products |-> (DOMAIN k4.mols) \ (DOMAIN volume_molecules),
                                    seen_defunct |-> seen,
                                    rng_before |-> rng_draws,
                                    time |-> 0,
                                    reached |-> vm0.t_reached]

\* react_unimol_single_molecule(p, vm_id, scheduled_time, unimol_rx)
react_unimol_single_molecule(vm_id, scheduled_time, unimol_rx) ==
  LET vm == volume_molecules[vm_id]
  IN  IF react_returns_early(vm)
        THEN /\ UNCHANGED <<volume_molecules, new_diffuse_or_unimol_react_actions,
                            calendar_for_unimol_rxs, rng_draws, fatal, assert_failed,
                            appended>>
             /\ last' = [LastNone EXCEPT !.kind = "skip", !.id = vm_id,
                                         !.rng_before = rng_draws]
        ELSE
          LET k1 == outcome_unimolecular(Kernel, vm_id, scheduled_time - event_time,
                                         unimol_rx)
              ok == /\ scheduled_time >= event_time
                    /\ scheduled_time <= event_time + diffusion_time_step
          IN  /\ volume_molecules' = k1.mols
              /\ new_diffuse_or_unimol_react_actions' = k1.queue
              /\ calendar_for_unimol_rxs' = k1.cal
              /\ appended' = k1.appended
              /\ UNCHANGED <<rng_draws, fatal>>
              /\ assert_failed' = (assert_failed \/ ~ok)
              /\ last' = [LastNone EXCEPT
                            !.kind = "unimol", !.id = vm_id, !.start_pos = vm.pos,
                            !.urx = vm.unimol_rx_time,
                            !.products = (DOMAIN k1.mols) \ (DOMAIN volume_molecules),
                            !.rng_before = rng_draws,
                            !.time = scheduled_time,
                            !.reached = vm.t_reached]

\* ---------------------------------------------------- diffuse_molecules ----

handled_entry(src, type, id, scheduled_time) ==
  [src |-> src, type |-> type, id |-> id, scheduled_time |-> scheduled_time,
   done |-> ~is_defunct(volume_molecules[id])]

\* the order of the three parts of diffuse_molecules
next_part_products_first(part) ==
  IF part = "existing" THEN "new"
  ELSE IF part = "new" THEN "unimol"
  ELSE "end"

next_part(part) ==
  IF part = "existing" THEN "unimol"
  ELSE IF part = "unimol" THEN "new"
  ELSE "end"

\* 1) diffuse the molecules that existed when the event started
DiffuseExisting ==
  /\ ~fatal
  /\ pc = "existing"
  /\ idx <= existing_mols_count
  /\ diffuse_single_molecule(idx, diffusion_time_step)
  /\ handled' = Append(handled, handled_entry("list", "DIFFUSE", idx, 0))
  /\ idx' = idx + 1
  /\ UNCHANGED <<event_time, events_done, pc, existing_mols_count>>
  /\ UNCHANGED other_vars

\* 2) the unimolecular reactions scheduled for this event in earlier events
ReactUnimolScheduled ==
  /\ ~fatal
  /\ pc = "unimol"
  /\ idx <= Len(bucket_events(calendar_for_unimol_rxs, event_time))
  /\ LET unimol_action == bucket_events(calendar_for_unimol_rxs, event_time)[idx]
     IN  /\ react_unimol_single_molecule(unimol_action.id, unimol_action.scheduled_time,
                                         unimol_action.unimol_rx)
         /\ handled' = Append(handled,
                              handled_entry("calendar", "UNIMOL_REACT", unimol_action.id,
                                            unimol_action.scheduled_time))
  /\ idx' = idx + 1
  /\ UNCHANGED <<event_time, events_done, pc, existing_mols_count>>
  /\ UNCHANGED other_vars

\* 3) the actions created in this event, handled as a queue
DiffuseNew ==
  /\ ~fatal
  /\ pc = "new"
  /\ idx <= Len(new_diffuse_or_unimol_react_actions)
  /\ LET action == new_diffuse_or_unimol_react_actions[idx]
     IN  /\ action.type = "DIFFUSE"
         /\ diffuse_single_molecule(action.id, diffusion_time_step - action.scheduled_time)
         /\ handled' = Append(handled, handled_entry("queue", action.type, action.id,
                                                     action.scheduled_time))
  /\ idx' = idx + 1
  /\ UNCHANGED <<event_time, events_done, pc, existing_mols_count>>
  /\ UNCHANGED other_vars

ReactUnimolNew ==
  /\ ~fatal
  /\ pc = "new"
  /\ idx <= Len(new_diffuse_or_unimol_react_actions)
  /\ LET action == new_diffuse_or_unimol_react_actions[idx]
     IN  /\ action.type = "UNIMOL_REACT"
         /\ react_unimol_single_molecule(action.id, action.scheduled_time,
                                         action.unimol_rx)
         /\ handled' = Append(handled, handled_entry("queue", action.type, action.id,
                                                     action.scheduled_time))
  /\ idx' = idx + 1
  /\ UNCHANGED <<event_time, events_done, pc, existing_mols_count>>
  /\ UNCHANGED other_vars

\* the loop of the running part is over
part_done ==
  \/ pc = "existing" /\ idx > existing_mols_count
  \/ pc = "unimol" /\ idx > Len(bucket_events(calendar_for_unimol_rxs, event_time))
  \/ pc = "new" /\ idx > Len(new_diffuse_or_unimol_react_actions)

\* from one part of diffuse_molecules to the next; part 2 ends with the pops of
\* the handled bucket and the older ones
NextPart ==
  /\ ~fatal
  /\ part_done
  /\ next_part(pc) # "end"
  /\ pc' = next_part(pc)
  /\ idx' = 1
  /\ calendar_for_unimol_rxs' =
       IF pc = "unimol" THEN pop_buckets(calendar_for_unimol_rxs, event_time)
       ELSE calendar_for_unimol_rxs
  /\ last' = [LastNone EXCEPT !.kind = "part", !.rng_before = rng_draws]
  /\ UNCHANGED <<volume_molecules, event_time, events_done, existing_mols_count,
                 new_diffuse_or_unimol_react_actions, rng_draws, fatal, assert_failed,
                 appended, handled>>
  /\ UNCHANGED other_vars

\* diffuse_molecules returns (the queue is cleared) and the scheduler runs the
\* event of the next iteration
FinishEvent ==
  /\ ~fatal
  /\ part_done
  /\ next_part(pc) = "end"
  /\ events_done + 1 < MaxEvents
  /\ new_diffuse_or_unimol_react_actions' = <<>>
  /\ calendar_for_unimol_rxs' =
       IF pc = "unimol" THEN pop_buckets(calendar_for_unimol_rxs, event_time)
       ELSE calendar_for_unimol_rxs
  /\ events_done' = events_done + 1
  /\ event_time' = event_time + diffusion_time_step
  /\ pc' = "existing"
  /\ idx' = 1
  /\ existing_mols_count' = Len(volume_molecules)
  /\ appended' = <<>>
  /\ handled' = <<>>
  /\ last' = [LastNone EXCEPT !.kind = "event", !.rng_before = rng_draws]
  /\ UNCHANGED <<volume_molecules, rng_draws, fatal, assert_failed>>
  /\ UNCHANGED other_vars

Next ==
  \/ DiffuseExisting
  \/ ReactUnimolScheduled
  \/ DiffuseNew
  \/ ReactUnimolNew
  \/ NextPart
  \/ FinishEvent

Spec == Init /\ [][Next]_vars

\* ------------------------------------------------------------ properties ----

\* the action the running loop handles next
has_current_action == ~fatal /\ ~part_done

current_molecule ==
  IF pc = "existing" THEN idx
  ELSE IF pc = "unimol" THEN bucket_events(calendar_for_unimol_rxs, event_time)[idx].id
  ELSE new_diffuse_or_unimol_react_actions[idx].id

\* the entries of the handling log that came from the in-event queue
handled_from_queue == SelectSeq(handled, LAMBDA h : h.src = "queue")

\* the time an action of the in-event queue stands for, from the event start
action_time(a) ==
  IF a.type = "DIFFUSE" THEN a.scheduled_time ELSE a.scheduled_time - event_time

\* C1: at the end of every diffusion step that did not end the run, the
\* subpart_index of every volume molecule (the one that moved, the ones that did
\* not, the products) is the index computed from its position, and it is the
\* index of a subpartition for the molecule that moved without being consumed
\* and for every molecule whose position is inside the partition.
C1_SubpartIndexOfPosition ==
  ~fatal =>
    /\ \A m \in DOMAIN volume_molecules :
         /\ volume_molecules[m].subpart_index = get_subpart_index(volume_molecules[m].pos)
         /\ in_this_partition(volume_molecules[m].pos) =>
              valid_subpart_index(volume_molecules[m].subpart_index)
    /\ (last.kind = "diffuse" /\ last.fired = 0) =>
         /\ in_this_partition(volume_molecules[last.id].pos)
         /\ valid_subpart_index(volume_molecules[last.id].subpart_index)

\* a molecule that was not consumed finished its step in another subpartition
C1_Witness ==
  /\ last.kind = "diffuse"
  /\ last.fired = 0
  /\ volume_molecules[last.id].pos # last.start_pos
  /\ volume_molecules[last.id].subpart_index # get_subpart_index(last.start_pos)

\* C2: a defunct molecule stays as it is for the rest of the run: no step
\* changes its record (it is never moved and never made live again), it is
\* never the molecule of a diffusion step or of a unimolecular reaction that is
\* carried out, and it is never among the collision candidates of a ray.
C2_DefunctIsForever ==
  [][ /\ \A m \in DOMAIN volume_molecules :
           is_defunct(volume_molecules[m]) =>
             /\ m \in DOMAIN volume_molecules'
             /\ volume_molecules'[m] = volume_molecules[m]
      /\ last'.kind \in {"diffuse", "unimol"} =>
           ~is_defunct(volume_molecules[last'.id])
      /\ last'.kind = "diffuse" =>
           \A i \in 1..Len(last'.inserted) :
             ~is_defunct(volume_molecules[last'.inserted[i].colliding_molecule_idx])
    ]_vars

\* a ray passed a defunct reaction partner within the interaction radius after
\* the action of a defunct molecule had been dropped in the same event
C2_Witness ==
  /\ last.kind = "diffuse"
  /\ last.seen_defunct # {}
  /\ \E i \in 1..Len(handled) : ~handled[i].done

\* C3: the actions of the in-event queue are handled in the order they were
\* appended, each one once, and when the loop over the queue ends every
\* appended action has been handled, the ones appended during the loop
\* included; the order is the order of insertion and not of scheduled time.
C3_QueueIsFifo ==
  /\ Len(handled_from_queue) <= Len(appended)
  /\ \A i \in 1..Len(handled_from_queue) :
       /\ handled_from_queue[i].id = appended[i].id
       /\ handled_from_queue[i].type = appended[i].type
       /\ handled_from_queue[i].scheduled_time = appended[i].scheduled_time
  /\ (pc = "new" /\ part_done) => Len(handled_from_queue) = Len(appended)

\* the queue was drained, an action was appended while it was drained (the
\* unimolecular reaction of a product whose residual diffusion was queued) and
\* an earlier action stood for a later time than a later one
C3_Witness ==
  /\ pc = "new"
  /\ part_done
  /\ Len(handled_from_queue) = Len(appended)
  /\ \E i, j \in 1..Len(appended) :
       /\ i < j
       /\ appended[i].id = appended[j].id
       /\ appended[i].type = "DIFFUSE"
       /\ appended[j].type = "UNIMOL_REACT"
  /\ \E i, j \in 1..Len(appended) :
       /\ i < j
       /\ action_time(appended[i]) > action_time(appended[j])

\* C4, as the specification states it: every unimolecular reaction queued for
\* the event fires before the residual diffusion of any product. Stated for
\* the reactions that were queued before the first residual diffusion was
\* processed (those of the calendar, and those of the molecules that existed
\* at the start of the event, which only part 1 queues): none of them is
\* carried out after the residual diffusion of a product was carried out.
C4_UnimolBeforeAnyProductDiffusion ==
  \A i, j \in 1..Len(handled) :
    ~ /\ i < j
      /\ handled[i].src = "queue"
      /\ handled[i].type = "DIFFUSE"
      /\ handled[i].done
      /\ handled[j].type = "UNIMOL_REACT"
      /\ handled[j].id <= existing_mols_count
      /\ handled[j].done

\* C4, amended: the unimolecular reactions that earlier events scheduled for
\* this event (the bucket of the partition calendar) are all handled before the
\* first action of the in-event queue, and none of them is left in the calendar
\* when the loop over the in-event queue runs; the unimolecular reactions
\* created in the event itself are handled at their place in the queue.
C4_ScheduledUnimolBeforeQueue ==
  /\ \A i, j \in 1..Len(handled) :
       (i < j /\ handled[i].src = "queue") => handled[j].src = "queue"
  /\ (pc = "new" \/ handled_from_queue # <<>>) =>
       bucket_events(calendar_for_unimol_rxs, event_time) = <<>>

\* a scheduled unimolecular reaction fired, and the residual diffusion of a
\* product was carried out after it
C4_Witness ==
  /\ pc = "new"
  /\ \E i, j \in 1..Len(handled) :
       /\ i < j
       /\ handled[i].src = "calendar"
       /\ handled[i].done
       /\ handled[j].src = "queue"
       /\ handled[j].type = "DIFFUSE"
       /\ handled[j].done

\* the place of a collision in the order the candidates were found
insertion_index(collision) ==
  CHOOSE i \in 1..Len(last.inserted) : last.inserted[i] = collision

\* C5: the collisions of one ray are handed to the reaction test by ascending
\* collision time, and candidates of equal collision time in the order they
\* were found.
C5_AscendingTimeTiesByInsertion ==
  last.kind = "diffuse" =>
    \A i, j \in evaluated_collisions(last.sorted, last.fired) :
      i < j =>
        \/ time_less(last.sorted[i], last.sorted[j])
        \/ /\ time_equal(last.sorted[i], last.sorted[j])
           /\ insertion_index(last.sorted[i]) < insertion_index(last.sorted[j])

\* C6: when the reaction test lets a collision react, the products are placed
\* at the collision point, the moving and the hit molecule are defunct, the
\* collisions after it are not tested (no random number is drawn for them) and
\* the moving molecule is left where it started.
C6_ReactionEndsTheStep ==
  (last.kind = "diffuse" /\ last.fired # 0) =>
    LET collision == last.sorted[last.fired]
        tested == {i \in 1..last.fired : ~is_immediate(last.sorted[i])}
    IN  /\ Cardinality(last.products) = Len(collision.rx.products)
        /\ \A p \in last.products :
             /\ volume_molecules[p].pos = collision.pos
             /\ volume_molecules[p].species_id \in
                  {collision.rx.products[i] : i \in DOMAIN collision.rx.products}
        /\ collision.diffused_molecule_idx = last.id
        /\ is_defunct(volume_molecules[last.id])
        /\ is_defunct(volume_molecules[collision.colliding_molecule_idx])
        /\ last.evaluated = Cardinality(tested)
        /\ rng_draws = last.rng_before + (IF last.sampled THEN 1 ELSE 0) + 3
                         + Cardinality(tested)
        /\ volume_molecules[last.id].pos = last.start_pos
        /\ volume_molecules[last.id].subpart_index = get_subpart_index(last.start_pos)

\* a collision reacted away from the start of the ray while a later collision
\* of the same ray was still waiting
C6_Witness ==
  /\ last.kind = "diffuse"
  /\ last.fired # 0
  /\ last.fired < Len(last.sorted)
  /\ ~is_immediate(last.sorted[Len(last.sorted)])
  /\ last.products # {}
  /\ last.sorted[last.fired].pos # last.start_pos

\* C7: an action whose molecule is defunct does nothing (no molecule changes,
\* no random number is drawn, nothing is queued or scheduled) and the loop goes
\* on to the next action; when the event is through, every molecule of the
\* list and every action appended to the queue has been handled.
C7_DefunctActionIsNoOp ==
  /\ [][ (has_current_action /\ is_defunct(volume_molecules[current_molecule])) =>
           /\ volume_molecules' = volume_molecules
           /\ rng_draws' = rng_draws
           /\ new_diffuse_or_unimol_react_actions' = new_diffuse_or_unimol_react_actions
           /\ calendar_for_unimol_rxs' = calendar_for_unimol_rxs
           /\ pc' = pc
           /\ idx' = idx + 1
       ]_vars
  /\ []( (pc = "new" /\ part_done) =>
           /\ \A m \in 1..existing_mols_count :
                \E i \in 1..Len(handled) : handled[i].src = "list" /\ handled[i].id = m
           /\ Len(handled_from_queue) = Len(appended) )

\* the action of a defunct molecule was dropped from the in-event queue and the
\* action of another molecule was carried out after it
C7_Witness ==
  \E i, j \in 1..Len(handled) :
    /\ i < j
    /\ handled[i].src = "queue"
    /\ ~handled[i].done
    /\ handled[j].done
    /\ handled[j].id # handled[i].id

\* C8: a unimolecular reaction never fires in the past. No assert of the kernel
\* fails; a unimolecular reaction that is carried out has a time inside the
\* running event and not before the time its molecule has reached; a
\* unimolecular time before the end of the running event, met by a diffusion
\* step, is not before the start of the event nor before the time the molecule
\* has reached.
C8_UnimolNeverInThePast ==
  /\ ~assert_failed
  /\ last.kind = "unimol" =>
       /\ last.time >= event_time
       /\ last.time <= event_time + diffusion_time_step
       /\ last.time >= last.reached
  /\ (last.kind = "diffuse" /\ last.shortened) =>
       /\ last.urx >= event_time
       /\ last.urx - event_time >= last.prev
       /\ last.urx >= last.reached

\* the unimolecular reaction of a product was carried out in the event that
\* created the product, at a time later than the creation
C8_Witness ==
  /\ last.kind = "unimol"
  /\ last.id > existing_mols_count
  /\ last.time > event_time
  /\ last.time = last.reached

\* C9, as the specification states it: a step of a molecule whose unimolecular
\* time lies before the end of the event lasts, or ends at the time from the
\* event start of, min(time left to the event end, unimol_rx_time - event_time).
C9_LandsOnMinOfTimeLeft ==
  (last.kind = "diffuse" /\ last.shortened) =>
    LET until_unimol == last.urx - event_time
        min == IF last.tleft < until_unimol THEN last.tleft ELSE until_unimol
    IN  \/ last.rem = min
        \/ last.prev + last.rem = min

\* C9, amended: a step of a molecule whose unimolecular time lies before the
\* end of the event ends exactly at the unimolecular time: it lasts
\* (unimol_rx_time - event_time) minus the time from the event start at which
\* the step begins, which is min(time left, unimol_rx_time - event_time) only
\* for a step that begins with the event; it is never negative and never
\* longer than the time left. Every other step lasts the time left.
C9_LandsOnUnimolTime ==
  last.kind = "diffuse" =>
    /\ last.prev = diffusion_time_step - last.tleft
    /\ last.shortened = (last.urx < event_time + diffusion_time_step)
    /\ last.shortened =>
         /\ event_time + last.prev + last.rem = last.urx
         /\ last.rem >= 0
         /\ last.rem <= last.tleft
         /\ last.prev = 0 =>
              last.rem = (IF last.tleft < last.urx - event_time
                            THEN last.tleft ELSE last.urx - event_time)
    /\ ~last.shortened => last.rem = last.tleft
    /\ volume_molecules[last.id].t_reached = event_time + last.prev + last.rem

\* the step of a product, begun inside the event, was shortened
C9_Witness ==
  /\ last.kind = "diffuse"
  /\ last.shortened
  /\ last.prev > 0
  /\ last.rem > 0
  /\ last.rem < last.tleft

\* C10: the lifetime of a molecule is drawn once, in the first diffusion step
\* of the molecule, and that step clears ACT_NEWBIE: a molecule that still has
\* the flag has made no step and has no lifetime drawn; a molecule without the
\* flag has made a step and has its lifetime drawn exactly once if its species
\* has a unimolecular reaction (never otherwise); the molecule of a diffusion
\* step leaves the step without the flag.
C10_LifetimeSampledOnce ==
  /\ \A m \in DOMAIN volume_molecules :
       LET vm == volume_molecules[m]
       IN  /\ vm.n_samples <= 1
           /\ vm.newbie => (vm.n_samples = 0 /\ vm.n_steps = 0)
           /\ ~vm.newbie =>
                /\ vm.n_steps >= 1
                /\ vm.n_samples =
                     (IF pick_unimol_rx(vm.species_id) # NullRx THEN 1 ELSE 0)
  /\ last.kind = "diffuse" =>
       /\ ~volume_molecules[last.id].newbie
       /\ last.sampled = (volume_molecules[last.id].n_steps = 1
                            /\ pick_unimol_rx(volume_molecules[last.id].species_id) # NullRx)

\* a molecule with a unimolecular reaction made its second diffusion step
C10_Witness ==
  /\ last.kind = "diffuse"
  /\ volume_molecules[last.id].n_steps = 2
  /\ volume_molecules[last.id].n_samples = 1
  /\ ~last.sampled

\* ================================================== walls of one ray ====
\* collision_utils.inc.  A length is a pair of integers: a coarse part in
\* length units and a fine part in units far below a length unit, in which
\* EPS and the perturbation of a REDO are measured.  Positions and walls are
\* coarse; only the displacement carries a fine part.  Two lengths are
\* compared by their coarse parts first.

\* EPS and EPS_C, in fine units
EpsLen == 2

\* EPS * (abs_max_2vec(p, v) + 1), the length of one jump, in fine units; the
\* factor is at least 1, so a jump is not shorter than EPS
JumpLen == 4

cross(a, b) ==
  <<a[2] * b[3] - a[3] * b[2], a[3] * b[1] - a[1] * b[3], a[1] * b[2] - a[2] * b[1]>>

scale(k, a) == <<k * a[1], k * a[2], k * a[3]>>

max3d(a) ==
  LET m12 == IF a[1] > a[2] THEN a[1] ELSE a[2]
  IN  IF m12 > a[3] THEN m12 ELSE a[3]

abs3(a) == <<abs(a[1]), abs(a[2]), abs(a[3])>>

sign(x) == IF x > 0 THEN 1 ELSE IF x < 0 THEN 0 - 1 ELSE 0

\* a length with coarse part c and fine part f
len2(c, f) == [c |-> c, f |-> f]

\* a < b for two lengths
len_less(a, b) == a.c < b.c \/ (a.c = b.c /\ a.f < b.f)

\* distinguishable_f(a, b, eps) for two lengths scaled by s > 0: the
\* difference exceeds eps times the larger magnitude (at least 1)
distinguishable_f(a, b, eps, s) ==
  LET big == IF abs(a.c) > abs(b.c) THEN abs(a.c) ELSE abs(b.c)
      m == IF big > s THEN big ELSE s
  IN  a.c # b.c \/ abs(a.f - b.f) > eps * m

\* the vertices of a wall: vert0 and the two others from the uv coordinates
face_vert(face, i) ==
  IF i = 0 THEN face.vert0
  ELSE IF i = 1 THEN vadd(face.vert0, scale(face.uv_vert1_u, face.unit_u))
  ELSE vadd(face.vert0, vadd(scale(face.uv_vert2[1], face.unit_u),
                             scale(face.uv_vert2[2], face.unit_v)))

\* jump_away_line: v is moved by tiny along f = n x e, with the sign of one bit
\* of rng_uint; tiny = EPS * (abs_max_2vec(p, v) + 1) / (k * max3d(|f|)) with
\* k = kn / kd; rng_bit is the bit drawn
jump_away_line_no_draw(kn, kd, A, B, n, rng_bit, v) ==
  [move |-> v, draws |-> 0]

jump_away_line(kn, kd, A, B, n, rng_bit, v) ==
  LET e == vsub(B, A)
      f == cross(n, e)
      fmax == max3d(abs3(f))
      sgn == IF rng_bit = 0 THEN 0 - 1 ELSE 1
      tiny_f == [i \in 1..3 |-> sgn * floor_div(JumpLen * kd * abs(f[i]), kn * fmax) * sign(f[i])]
  IN  [move |-> [v EXCEPT !.f = vsub(@, tiny_f)], draws |-> 1]

\* what collide_wall returns: the collision type, the displacement (changed by
\* a REDO only), the numbers drawn, the collision time tn/td
wall_result(type, move, draws, tn, td) ==
  [type |-> type, move |-> move, draws |-> draws, tn |-> tn, td |-> td]

\* collide_wall(p, pos, face, rng, update_move, move, collision_time,
\* collision_pos); rng_bit is the bit that rng_uint gives if it is called
\* the three places where collide_wall meets an edge of the wall: with
\* update_move the displacement jumps away from the edge A-B and the test is to
\* be redone, without it the case counts as a miss
edge_hit_always_redo(update_move, tn, td, A, B, normal, rng_bit, move) ==
  LET j == jump_away_line(tn, td, A, B, normal, rng_bit, move)
  IN  wall_result("WALL_REDO", j.move, j.draws, tn, td)

edge_hit(update_move, tn, td, A, B, normal, rng_bit, move) ==
  IF update_move
    THEN LET j == jump_away_line(tn, td, A, B, normal, rng_bit, move)
         IN  wall_result("WALL_REDO", j.move, j.draws, tn, td)
    ELSE wall_result("WALL_MISS", move, 0, tn, td)

collide_wall(pos, face, update_move, move, rng_bit) ==
  LET normal == face.normal
      dp == dot(normal, pos)
      dv == len2(dot(normal, move.c), dot(normal, move.f))
      dd == dp - face.distance_to_origin
      \* dd + dv against d_eps = EPS (dd > 0) or -EPS (dd < 0); |dd| is at
      \* least one length unit when it is not 0
      end_above == dd + dv.c > 0 \/ (dd + dv.c = 0 /\ dv.f > EpsLen)
      end_below == dd + dv.c < 0 \/ (dd + dv.c = 0 /\ dv.f < 0 - EpsLen)
      \* a = -dd / dv = tn / td (dv.c is not 0 where a is used)
      td == abs(dv.c)
      tn == (0 - dd) * sign(dv.c)
      \* local = collision_pos - face_vert[0], times td
      local == [c |-> vadd(scale(td, vsub(pos, face.vert0)), scale(tn, move.c)),
                f |-> scale(tn, move.f)]
      b == len2(dot(local.c, face.unit_u), dot(local.f, face.unit_u))
      c0 == len2(dot(local.c, face.unit_v), dot(local.f, face.unit_v))
      flip == face.uv_vert2[2] < 0
      c == IF flip THEN len2(0 - c0.c, 0 - c0.f) ELSE c0
      f == IF flip THEN 0 - face.uv_vert2[2] ELSE face.uv_vert2[2]
      zero == len2(0, 0)
      g == len2(b.c * f, b.f * f)
      h == len2(c.c * face.uv_vert2[1], c.f * face.uv_vert2[1])
      lhs == len2(c.c * face.uv_vert1_u + g.c, c.f * face.uv_vert1_u + g.f)
      rhs == len2(h.c + face.uv_vert1_u * face.uv_vert2[2] * td, h.f)
      redo(A, B) == edge_hit(update_move, tn, td, A, B, normal, rng_bit, move)
      miss == wall_result("WALL_MISS", move, 0, tn, td)
  IN  IF dd > 0 /\ end_above THEN wall_result("WALL_MISS", move, 0, 0, 1)
      ELSE IF dd < 0 /\ end_below THEN wall_result("WALL_MISS", move, 0, 0, 1)
      ELSE IF dd = 0
        THEN IF dv.c # 0 \/ dv.f # 0
               THEN wall_result("WALL_MISS", move, 0, 0, 1)
               ELSE IF update_move
                 THEN LET a == IF rng_bit = 0 THEN 0 - JumpLen ELSE JumpLen
                      IN  wall_result("WALL_REDO",
                                      [move EXCEPT !.f = vsub(@, scale(a, normal))],
                                      1, 0, 1)
                 ELSE wall_result("WALL_MISS", move, 0, 0, 1)
      ELSE IF len_less(zero, c)
        THEN IF len_less(h, g)
               THEN IF len_less(lhs, rhs)
                      THEN wall_result(IF dv.c > 0 THEN "WALL_BACK" ELSE "WALL_FRONT",
                                       move, 0, tn, td)
                      ELSE IF ~distinguishable_f(lhs, rhs, EpsLen, td)
                        THEN redo(face_vert(face, 1), face_vert(face, 2))
                        ELSE miss
               ELSE IF ~distinguishable_f(g, h, EpsLen, td)
                 THEN redo(face_vert(face, 2), face_vert(face, 0))
                 ELSE miss
        ELSE IF ~distinguishable_f(c, zero, EpsLen, td)
          THEN redo(face_vert(face, 0), face_vert(face, 1))
          ELSE miss

\* a wall in the plane z = vert0[3] with unit_u along x and unit_v along y
wall_in_z_plane(vert0, uv_vert1_u, uv_vert2) ==
  [normal |-> <<0, 0, 1>>, distance_to_origin |-> vert0[3], vert0 |-> vert0,
   unit_u |-> <<1, 0, 0>>, unit_v |-> <<0, 1, 0>>,
   uv_vert1_u |-> uv_vert1_u, uv_vert2 |-> uv_vert2]

\* the walls of the scenes: a triangle with its right angle at the origin and
\* a larger one two length units above it
WallLow == wall_in_z_plane(<<0, 0, 0>>, 4, <<0, 4>>)

WallHigh == wall_in_z_plane(<<0 - 1, 0 - 1, 2>>, 8, <<0, 8>>)

\* the rays: down through an edge, the inside or the outside of WallLow, along
\* its plane, and up through it; the fine part of the displacement to start with
Rays ==
  {[pos |-> <<x[1], x[2], 4>>, move |-> <<0, 0, 0 - 4>>] :
     x \in {<<1, 0>>, <<0, 1>>, <<2, 2>>, <<1, 1>>, <<5, 5>>}}
  \cup {[pos |-> <<1, 1, 0>>, move |-> <<2, 0, 0>>],
        [pos |-> <<1, 1, 0 - 4>>, move |-> <<0, 0, 4>>]}

FineParts == {<<0, 0, 0>>, <<0, 0 - 2, 0>>}

WallLists == {<<WallHigh, WallLow>>, <<WallLow, WallHigh>>, <<WallLow>>}

\* the wall index that stands for "no wall was reflected from"
WALL_INDEX_INVALID == 0

\* a position that was not written yet; a written one is the point
\* pos + (tn / td) * move
NoHitPos == [written |-> FALSE]

hit_pos(tn, td, move) == [written |-> TRUE, tn |-> tn, td |-> td, move |-> move]

\* is_immediate_collision(time): time < EPS; the collision times of the scenes
\* are 0 or at least one length unit over the length of the displacement
is_immediate_collision(tn, td) == tn = 0

LastWallNone ==
  [kind |-> "none", wall |-> 0, update_move |-> FALSE, type |-> "none", draws |-> 0,
   move_before |-> <<>>, move_after |-> <<>>, restarted |-> FALSE]

InitWalls ==
  /\ kernel_init(<<>>)
  /\ walker_off
  /\ trav_off
  /\ region_off
  /\ prod_off
  /\ refl_off
  /\ cvol_off
  /\ geom_off
  /\ restr_off
  /\ sp_off
  /\ sm_off
  /\ rx_off
  /\ cal_off
  /\ \E ray \in Rays, walls \in WallLists, previous \in {WALL_INDEX_INVALID, 1} :
       scene = [pos |-> ray.pos, move |-> ray.move, walls |-> walls,
                previous_reflected_wall |-> previous]
  /\ \E fine \in FineParts : wall_displacement = [c |-> scene.move, f |-> fine]
  /\ wall_it = 1
  /\ wall_collisions = <<>>
  /\ wall_pc \in {"collect", "test"}
  /\ wall_tested = {}
  /\ wall_last = LastWallNone
  /\ closest_hit = [time |-> [tn |-> FOREVER, td |-> 1], pos |-> NoHitPos]
  /\ displacement_up_to_wall_collision = NoHitPos

\* Collision(collision_type, &p, vm.id, collision_time, collision_pos, wall_index)
wall_collision(type, tn, td, wall_index) ==
  [type |-> type, tn |-> tn, td |-> td, wall_index |-> wall_index]

\* where the iterator stands after a REDO: it = wall_indices.begin() in the
\* loop body, then the it++ of the for statement
iterator_after_redo == 1 + 1

\* collect_wall_collisions, one iteration for the previously reflected wall
CollectWallSkip ==
  /\ wall_pc = "collect"
  /\ wall_it <= Len(scene.walls)
  /\ wall_it = scene.previous_reflected_wall
  /\ wall_it' = wall_it + 1
  /\ wall_last' = [LastWallNone EXCEPT !.kind = "skip", !.wall = wall_it,
                                       !.move_before = wall_displacement,
                                       !.move_after = wall_displacement]
  /\ UNCHANGED <<scene, wall_displacement, wall_collisions, wall_pc, wall_tested,
                 closest_hit, displacement_up_to_wall_collision>>
  /\ UNCHANGED outside_walls

\* collect_wall_collisions, one iteration for any other wall
CollectWallTest ==
  /\ wall_pc = "collect"
  /\ wall_it <= Len(scene.walls)
  /\ wall_it # scene.previous_reflected_wall
  /\ \E rng_bit \in {0, 1} :
       LET r == collide_wall(scene.pos, scene.walls[wall_it], TRUE, wall_displacement,
                             rng_bit)
       IN  /\ wall_displacement' = r.move
           /\ IF r.type = "WALL_REDO"
                THEN /\ wall_collisions' = <<>>
                     /\ wall_it' = iterator_after_redo
                     /\ wall_tested' = {}
                ELSE /\ wall_collisions' =
                          IF r.type # "WALL_MISS"
                            THEN Append(wall_collisions,
                                        wall_collision(r.type, r.tn, r.td, wall_it))
                            ELSE wall_collisions
                     /\ wall_it' = wall_it + 1
                     /\ wall_tested' = wall_tested \cup {wall_it}
           /\ closest_hit' =
                IF /\ r.type \notin {"WALL_REDO", "WALL_MISS"}
                   /\ r.tn * closest_hit.time.td < closest_hit.time.tn * r.td
                   /\ ~is_immediate_collision(r.tn, r.td)
                  THEN [closest_hit EXCEPT !.pos = hit_pos(r.tn, r.td, r.move)]
                  ELSE closest_hit
           /\ wall_last' = [kind |-> "collect", wall |-> wall_it, update_move |-> TRUE,
                            type |-> r.type, draws |-> r.draws,
                            move_before |-> wall_displacement, move_after |-> r.move,
                            restarted |-> r.type = "WALL_REDO"]
  /\ UNCHANGED <<scene, wall_pc, displacement_up_to_wall_collision>>
  /\ UNCHANGED outside_walls

\* collect_wall_collisions returns
CollectWallsDone ==
  /\ wall_pc = "collect"
  /\ wall_it > Len(scene.walls)
  /\ wall_pc' = "collected"
  /\ displacement_up_to_wall_collision' =
       IF wall_collisions # <<>> THEN closest_hit.pos ELSE displacement_up_to_wall_collision
  /\ wall_last' = [LastWallNone EXCEPT !.kind = "done",
                                       !.move_before = wall_displacement,
                                       !.move_after = wall_displacement]
  /\ UNCHANGED <<scene, wall_displacement, wall_it, wall_collisions, wall_tested, closest_hit>>
  /\ UNCHANGED outside_walls

\* collide_wall_test(p, pos, face, move) for the next wall of the scene, as
\* is_point_inside_region calls it for the walls of a region
CollideWallTest ==
  /\ wall_pc = "test"
  /\ wall_it <= Len(scene.walls)
  /\ \E rng_bit \in {0, 1} :
       LET r == collide_wall(scene.pos, scene.walls[wall_it], FALSE, wall_displacement,
                             rng_bit)
       IN  wall_last' = [kind |-> "test", wall |-> wall_it, update_move |-> FALSE,
                         type |-> r.type, draws |-> r.draws,
                         move_before |-> wall_displacement, move_after |-> r.move,
                         restarted |-> FALSE]
  /\ wall_it' = wall_it + 1
  /\ UNCHANGED <<scene, wall_displacement, wall_collisions, wall_pc, wall_tested,
                 closest_hit, displacement_up_to_wall_collision>>
  /\ UNCHANGED outside_walls

CollideWallTestsDone ==
  /\ wall_pc = "test"
  /\ wall_it > Len(scene.walls)
  /\ wall_pc' = "tested"
  /\ wall_last' = [LastWallNone EXCEPT !.kind = "done",
                                       !.move_before = wall_displacement,
                                       !.move_after = wall_displacement]
  /\ UNCHANGED <<scene, wall_displacement, wall_it, wall_collisions, wall_tested,
                 closest_hit, displacement_up_to_wall_collision>>
  /\ UNCHANGED outside_walls

NextWalls ==
  \/ CollectWallSkip
  \/ CollectWallTest
  \/ CollectWallsDone
  \/ CollideWallTest
  \/ CollideWallTestsDone

SpecWalls == InitWalls /\ [][NextWalls]_vars

\* every iteration of the loops is taken eventually
SpecWallsFair == SpecWalls /\ WF_vars(NextWalls)

\* the walls that collect_wall_collisions has to test
walls_to_test == (1..Len(scene.walls)) \ {scene.previous_reflected_wall}

\* C11: when collect_wall_collisions has returned, every wall of the
\* subpartition other than the previously reflected one was tested against
\* the displacement it returns, a restart after REDO included
C11_EveryWallTestedAgainAfterRedo ==
  wall_pc = "collected" => wall_tested = walls_to_test

\* C12: collecting the wall collisions of one ray always comes to an end
C12_CollectingTerminates == <>(wall_pc \in {"collected", "tested"})

\* C13: a wall test that returns REDO has taken exactly one value from the
\* random number generator, and a test that returns a miss, a front hit or a
\* back hit has taken none
C13_RedoDrawsOnceOthersNever ==
  wall_last.kind \in {"collect", "test"} =>
    /\ wall_last.type \in {"WALL_MISS", "WALL_FRONT", "WALL_BACK", "WALL_REDO"}
    /\ wall_last.type = "WALL_REDO" => wall_last.draws = 1
    /\ wall_last.type # "WALL_REDO" => wall_last.draws = 0

C13_Witness ==
  /\ wall_last.kind = "collect"
  /\ wall_last.type = "WALL_REDO"
  /\ wall_last.draws = 1
  /\ wall_last.move_after # wall_last.move_before

\* C14: a wall test with update_move = false never returns REDO, leaves the
\* displacement as it was and takes nothing from the random number generator;
\* where the same test with update_move = true returns REDO it returns a miss
C14_NoUpdateMeansNoRedo ==
  wall_last.kind = "test" =>
    /\ wall_last.type # "WALL_REDO"
    /\ wall_last.move_after = wall_last.move_before
    /\ wall_last.draws = 0
    /\ \A rng_bit \in {0, 1} :
         collide_wall(scene.pos, scene.walls[wall_last.wall], TRUE,
                      wall_last.move_before, rng_bit).type = "WALL_REDO"
           => wall_last.type = "WALL_MISS"

C14_Witness ==
  /\ wall_last.kind = "test"
  /\ wall_last.type = "WALL_MISS"
  /\ wall_last.draws = 0
  /\ collide_wall(scene.pos, scene.walls[wall_last.wall], TRUE,
                  wall_last.move_before, 0).type = "WALL_REDO"

\* ---------------------------------------------------------------------
\* reaction decisions (reaction_utils.inc)
\*
\* float_t values are exact fractions: a numerator n over a denominator d > 0.

MaxDecisions == 2

RECURSIVE gcd(_, _)
gcd(a, b) == IF b = 0 THEN a ELSE gcd(b, a % b)

\* the fraction n / d in lowest terms
rat(n, d) ==
  LET g == gcd(abs(n), d)
  IN  [n |-> n \div g, d |-> d \div g]

r_less(a, b) == a.n * b.d < b.n * a.d

r_mul(a, b) == rat(a.n * b.n, a.d * b.d)

\* a / b for b > 0
r_div(a, b) == rat(a.n * b.d, a.d * b.n)

r_add(a, b) == rat(a.n * b.d + b.n * a.d, a.d * b.d)

r_sub(a, b) == rat(a.n * b.d - b.n * a.d, a.d * b.d)

r_zero == rat(0, 1)

r_one == rat(1, 1)

RX_NO_RX == 0 - 1

\* the values rng_dbl returns in the modelled runs
RngDbl == {rat(0, 8), rat(3, 8), rat(7, 8)}

RECURSIVE cum_sums(_, _)
cum_sums(probs, i) ==
  IF i = 0 THEN <<>> ELSE Append(cum_sums(probs, i - 1),
                                 IF i = 1 THEN probs[1]
                                 ELSE r_add(cum_sums(probs, i - 1)[i - 1], probs[i]))

\* RxnClass with the given pathway probabilities, in eighths
RxnClass(eighths) ==
  LET cum_probs == cum_sums([i \in 1..Len(eighths) |-> rat(eighths[i], 8)], Len(eighths))
  IN  [cum_probs |-> cum_probs, min_noreaction_p |-> cum_probs[1],
       max_fixed_p |-> cum_probs[Len(cum_probs)]]

get_num_reactions(rxn_class) == Len(rxn_class.cum_probs)

RxnClasses == {RxnClass(<<2>>), RxnClass(<<8>>), RxnClass(<<2, 4>>), RxnClass(<<0>>),
               RxnClass(<<1, 2, 4>>)}

Scalings == {rat(1, 2), rat(1, 1), rat(4, 1)}

LocalProbFactors == {r_zero, r_one, rat(2, 1)}

\* the loop and the final comparison of binary_search_double; A is indexed
\* from 0 in the code. The file holds the function twice: RxUtil multiplies by
\* mult in the final comparison (mult_at_end = mult), rx_util does not
\* (mult_at_end = 1)
RECURSIVE binary_search_loop(_, _, _, _, _, _)
binary_search_loop(A, match, min_idx, max_idx, mult, mult_at_end) ==
  IF max_idx - min_idx > 1
    THEN LET mid_idx == (max_idx + min_idx) \div 2
         IN  IF r_less(r_mul(A[mid_idx + 1], mult), match)
               THEN binary_search_loop(A, match, mid_idx, max_idx, mult, mult_at_end)
               ELSE binary_search_loop(A, match, min_idx, mid_idx, mult, mult_at_end)
    ELSE IF r_less(r_mul(A[min_idx + 1], mult_at_end), match) THEN max_idx ELSE min_idx

\* rx_util::binary_search_double, the copy whose final comparison is
\* match > A[min_idx]
binary_search_double_rx_util(A, match, max_idx, mult) ==
  binary_search_loop(A, match, 0, max_idx, mult, r_one)

\* RxUtil::binary_search_double, called by RxUtil::test_bimolecular,
\* test_many_bimolecular and which_unimolecular
binary_search_double(A, match, max_idx, mult) ==
  binary_search_loop(A, match, 0, max_idx, mult, mult)

\* what a decision returns and how often it called rng_dbl
decision(result, draws) == [status |-> "returned", result |-> result, draws |-> draws]

\* test_bimolecular with min_noreaction_p scaled by max(1, local_prob_factor)
test_bimolecular_max_factor(rxn_class, U, scaling, local_prob_factor) ==
  LET min_noreaction_p ==
        IF r_less(r_one, local_prob_factor)
          THEN r_mul(rxn_class.min_noreaction_p, local_prob_factor)
          ELSE rxn_class.min_noreaction_p
      max_p == IF local_prob_factor.n > 0
                 THEN r_mul(rxn_class.max_fixed_p, local_prob_factor)
                 ELSE rxn_class.max_fixed_p
      M == get_num_reactions(rxn_class) - 1
      mult == IF local_prob_factor.n > 0 THEN local_prob_factor ELSE r_one
      pick(p) == decision(binary_search_double(rxn_class.cum_probs, p, M, mult), 1)
  IN  IF r_less(min_noreaction_p, scaling)
        THEN LET p == r_mul(U, scaling)
             IN  IF ~r_less(p, min_noreaction_p) THEN decision(RX_NO_RX, 1) ELSE pick(p)
        ELSE IF ~r_less(max_p, scaling)
               THEN pick(r_mul(U, max_p))
               ELSE LET p == r_mul(U, scaling)
                    IN  IF ~r_less(p, max_p) THEN decision(RX_NO_RX, 1) ELSE pick(p)

test_bimolecular(rxn_class, U, scaling, local_prob_factor) ==
  LET min_noreaction_p ==
        IF local_prob_factor.n # 0
          THEN r_mul(rxn_class.min_noreaction_p, local_prob_factor)
          ELSE rxn_class.min_noreaction_p
      max_p == IF local_prob_factor.n > 0
                 THEN r_mul(rxn_class.max_fixed_p, local_prob_factor)
                 ELSE rxn_class.max_fixed_p
      M == get_num_reactions(rxn_class) - 1
      mult == IF local_prob_factor.n > 0 THEN local_prob_factor ELSE r_one
      pick(p) == decision(binary_search_double(rxn_class.cum_probs, p, M, mult), 1)
  IN  IF r_less(min_noreaction_p, scaling)
        THEN LET p == r_mul(U, scaling)
             IN  IF ~r_less(p, min_noreaction_p) THEN decision(RX_NO_RX, 1) ELSE pick(p)
        ELSE IF ~r_less(max_p, scaling)
               THEN pick(r_mul(U, max_p))
               ELSE LET p == r_mul(U, scaling)
                    IN  IF ~r_less(p, max_p) THEN decision(RX_NO_RX, 1) ELSE pick(p)

\* cum_rxn_class_probs of test_many_bimolecular: n sums followed by n zeros
RECURSIVE cum_rxn_class_probs(_, _, _, _)
cum_rxn_class_probs(rxn_classes, scaling, factor, i) ==
  IF i = 0 THEN <<>>
  ELSE LET before == cum_rxn_class_probs(rxn_classes, scaling, factor, i - 1)
           term == r_div(r_mul(rxn_classes[i].max_fixed_p, factor), scaling[i])
       IN  Append(before, IF i = 1 THEN term ELSE r_add(before[i - 1], term))

test_many_bimolecular(rxn_classes, scaling, local_prob_factor, U, all_neighbors_flag) ==
  LET n == Len(rxn_classes)
      with_factor == all_neighbors_flag /\ local_prob_factor.n > 0
      factor == IF with_factor THEN local_prob_factor ELSE r_one
      sums == cum_rxn_class_probs(rxn_classes, scaling, factor, n)
      padded == sums \o [i \in 1..n |-> r_zero]
      p == IF r_less(r_one, sums[n]) THEN r_mul(U, sums[n]) ELSE U
      rx_index == binary_search_double(padded, p, 2 * n - 1, r_one)
      my_rxn == rxn_classes[rx_index + 1]
      rest == IF rx_index > 0 THEN r_sub(p, padded[rx_index]) ELSE p
      m == binary_search_double(my_rxn.cum_probs, r_mul(rest, scaling[rx_index + 1]),
                                get_num_reactions(my_rxn) - 1, factor)
  IN  IF all_neighbors_flag /\ ~(local_prob_factor.n > 0)
        THEN [status |-> "mcell_internal_error", result |-> RX_NO_RX, draws |-> 0]
        ELSE IF n = 1
          THEN test_bimolecular(rxn_classes[1], U, scaling[1],
                                IF all_neighbors_flag THEN local_prob_factor ELSE r_zero)
          ELSE IF ~r_less(r_one, sums[n]) /\ r_less(sums[n], p)
            THEN decision(RX_NO_RX, 1)
            ELSE [status |-> "returned", result |-> rx_index, chosen_reaction_index |-> m,
                  draws |-> 1]

\* time_of_unimol, called by compute_unimol_lifetime; EPS is far below 1/8
time_of_unimol(rx, U) ==
  LET k_tot == rx.max_fixed_p
      p == U
  IN  IF k_tot.n <= 0 \/ p.n = 0
        THEN [status |-> "TIME_FOREVER", result |-> FOREVER, draws |-> 1]
        ELSE [status |-> "-log(p) / k_tot", result |-> 0, draws |-> 1]

compute_unimol_lifetime(rx, U) == time_of_unimol(rx, U)

which_unimolecular_always_draws(rxn_class, U) ==
  LET max == get_num_reactions(rxn_class) - 1
      match == r_mul(U, rxn_class.cum_probs[max + 1])
  IN  decision(binary_search_double(rxn_class.cum_probs, match, max, r_one), 1)

which_unimolecular(rxn_class, U) ==
  IF get_num_reactions(rxn_class) = 1
    THEN decision(0, 0)
    ELSE LET max == get_num_reactions(rxn_class) - 1
             match == r_mul(U, rxn_class.cum_probs[max + 1])
         IN  decision(binary_search_double(rxn_class.cum_probs, match, max, r_one), 1)

RxnClassesVectors ==
  {<<RxnClass(<<2>>)>>, <<RxnClass(<<2>>), RxnClass(<<2, 4>>)>>,
   <<RxnClass(<<8>>), RxnClass(<<1, 2, 4>>)>>,
   <<RxnClass(<<2>>), RxnClass(<<2, 4>>), RxnClass(<<1, 2, 4>>)>>}

InitRx ==
  /\ kernel_init(<<>>)
  /\ walker_off
  /\ trav_off
  /\ region_off
  /\ prod_off
  /\ refl_off
  /\ cvol_off
  /\ geom_off
  /\ restr_off
  /\ sp_off
  /\ sm_off
  /\ walls_off
  /\ cal_off
  /\ rx_rng = [randcnt |-> 0]
  /\ rx_decisions = 0
  /\ rx_last = [fn |-> "none"]

\* the decision d was taken by function fn on the class or classes rxn
decided(fn, rxn, U, d) ==
  /\ rx_rng' = [randcnt |-> rx_rng.randcnt + d.draws]
  /\ rx_last' = [fn |-> fn, rxn |-> rxn, status |-> d.status, result |-> d.result,
                 rng_dbl |-> U, randcnt_before |-> rx_rng.randcnt]

TestBimolecular ==
  /\ rx_decisions < MaxDecisions
  /\ rx_decisions' = rx_decisions + 1
  /\ \E rxn_class \in RxnClasses, U \in RngDbl, scaling \in Scalings,
        local_prob_factor \in LocalProbFactors :
       decided("test_bimolecular", <<rxn_class>>, U,
               test_bimolecular(rxn_class, U, scaling, local_prob_factor))
  /\ UNCHANGED outside_rx

TestManyBimolecular ==
  /\ rx_decisions < MaxDecisions
  /\ rx_decisions' = rx_decisions + 1
  /\ \E rxn_classes \in RxnClassesVectors, U \in RngDbl,
        local_prob_factor \in LocalProbFactors, all_neighbors_flag \in BOOLEAN :
       \E scaling \in [1..Len(rxn_classes) -> Scalings] :
         decided("test_many_bimolecular", rxn_classes, U,
                 test_many_bimolecular(rxn_classes, scaling, local_prob_factor, U,
                                       all_neighbors_flag))
  /\ UNCHANGED outside_rx

ComputeUnimolLifetime ==
  /\ rx_decisions < MaxDecisions
  /\ rx_decisions' = rx_decisions + 1
  /\ \E rx \in RxnClasses, U \in RngDbl :
       decided("compute_unimol_lifetime", <<rx>>, U,
               compute_unimol_lifetime(rx, U))
  /\ UNCHANGED outside_rx

WhichUnimolecular ==
  /\ rx_decisions < MaxDecisions
  /\ rx_decisions' = rx_decisions + 1
  /\ \E rxn_class \in RxnClasses, U \in RngDbl :
       decided("which_unimolecular", <<rxn_class>>, U,
               which_unimolecular(rxn_class, U))
  /\ UNCHANGED outside_rx

NextRx ==
  \/ TestBimolecular
  \/ TestManyBimolecular
  \/ ComputeUnimolLifetime
  \/ WhichUnimolecular

SpecRx == InitRx /\ [][NextRx]_vars

\* the values rng_dbl returned for the last decision
rx_last_draws == rx_rng.randcnt - rx_last.randcnt_before

\* C15 as stated: every reaction decision takes exactly one value from the
\* random number generator, whatever it decides
C15_EveryDecisionDrawsOnce ==
  rx_last.fn # "none" => rx_last_draws = 1

\* C15: the bimolecular gates that return and the unimolecular lifetime take
\* exactly one value from the random number generator, whatever they decide;
\* the choice of a unimolecular pathway takes one when the class has several
\* pathways and none when it has one; a multi-class gate that stops with an
\* internal error takes none
C15_DecisionDrawsOnceButSinglePathway ==
  rx_last.fn # "none" =>
    IF rx_last.fn = "which_unimolecular" /\ get_num_reactions(rx_last.rxn[1]) = 1
      THEN rx_last_draws = 0 /\ rx_last.result = 0
    ELSE IF rx_last.status = "mcell_internal_error"
      THEN rx_last_draws = 0 /\ rx_last.fn = "test_many_bimolecular"
    ELSE rx_last_draws = 1

C15_Witness ==
  /\ rx_last.fn = "test_many_bimolecular"
  /\ Len(rx_last.rxn) = 3
  /\ rx_last.result = RX_NO_RX
  /\ rx_last_draws = 1
  /\ rx_rng.randcnt = 1
  /\ rx_decisions = 2

\* ---------------------------------------------------------------------
\* reproducible runs

\* the index in sorted of the n-th collision that the loop of
\* diffuse_single_molecule hands to the reaction gate (0: there is none)
nth_tested(sorted, n) ==
  LET found == {i \in 1..Len(sorted) :
                  /\ ~is_immediate(sorted[i])
                  /\ Cardinality({j \in 1..i : ~is_immediate(sorted[j])}) = n}
  IN  IF found = {} THEN 0 ELSE CHOOSE i \in found : TRUE

MaxInserts == 4

TicksPerTimeUnit == 2

BUCKET_TIME_INTERVAL == 1 * TicksPerTimeUnit

TIME_SIMULATION_START == 0 * TicksPerTimeUnit

\* the times of the events of the modelled runs, in ticks
EventTimes == {0, 1, 2, 3, 5}

\* Bucket(start_time_)
Bucket(start_time) == [start_time |-> start_time, events |-> <<>>]

\* Calendar()
Calendar == <<Bucket(TIME_SIMULATION_START)>>

floor_to_multiple(val, multiple) == floor_div(val, multiple) * multiple

event_time_to_bucket_start_time_wrapping(time) ==
  floor_to_multiple(time % (2 * BUCKET_TIME_INTERVAL), BUCKET_TIME_INTERVAL)

event_time_to_bucket_start_time(time) ==
  floor_to_multiple(time, BUCKET_TIME_INTERVAL)

get_first_bucket_start_time(queue) == queue[1].start_time

\* Bucket::insert: the event goes behind the events that are not later than it
bucket_insert(events, event) ==
  LET before == SelectSeq(events, LAMBDA e : e.event_time <= event.event_time)
      after == SelectSeq(events, LAMBDA e : e.event_time > event.event_time)
  IN  before \o <<event>> \o after

\* Calendar::get_or_create_bucket: the queue with the buckets up to the one of
\* time, and the position of that bucket
get_or_create_bucket(queue, time) ==
  LET bucket_start_time == event_time_to_bucket_start_time(time)
      first == IF queue = <<>> THEN bucket_start_time
               ELSE get_first_bucket_start_time(queue)
      index == floor_div(bucket_start_time - first, BUCKET_TIME_INTERVAL) + 1
      grown == [i \in 1..(IF index > Len(queue) THEN index ELSE Len(queue)) |->
                  IF i <= Len(queue) THEN queue[i]
                  ELSE Bucket(first + (i - 1) * BUCKET_TIME_INTERVAL)]
  IN  [queue |-> grown, index |-> index]

\* Calendar::insert
calendar_insert(queue, event) ==
  LET b == get_or_create_bucket(queue, event.event_time)
  IN  [b.queue EXCEPT ![b.index].events = bucket_insert(@, event)]

\* Calendar::clear_empty_buckets: the empty buckets at the front are dropped
RECURSIVE clear_empty_buckets(_)
clear_empty_buckets(queue) ==
  IF queue # <<>> /\ queue[1].events = <<>>
    THEN clear_empty_buckets(Tail(queue))
    ELSE queue

calendar_has_events(queue) == \E i \in 1..Len(queue) : queue[i].events # <<>>

\* Calendar::pop_next: the event it returns and the queue it leaves
pop_next(queue) ==
  LET trimmed == clear_empty_buckets(queue)
  IN  [event |-> Head(trimmed[1].events),
       queue |-> [trimmed EXCEPT ![1].events = Tail(@)]]

InitCalendar ==
  /\ kernel_init(<<>>)
  /\ walker_off
  /\ trav_off
  /\ region_off
  /\ prod_off
  /\ refl_off
  /\ cvol_off
  /\ geom_off
  /\ restr_off
  /\ sp_off
  /\ sm_off
  /\ walls_off
  /\ rx_off
  /\ cal_queue = Calendar
  /\ cal_inserted = 0
  /\ cal_popped = <<>>
  /\ cal_pc = "insert"

\* Calendar::insert(event); events are not scheduled before the first bucket
CalendarInsert ==
  /\ cal_pc = "insert"
  /\ cal_inserted < MaxInserts
  /\ \E time \in EventTimes :
       /\ event_time_to_bucket_start_time(time) >= get_first_bucket_start_time(cal_queue)
       /\ cal_queue' = calendar_insert(cal_queue,
                                       [id |-> cal_inserted + 1, event_time |-> time])
  /\ cal_inserted' = cal_inserted + 1
  /\ UNCHANGED <<cal_popped, cal_pc>>
  /\ UNCHANGED outside_cal

\* the caller turns from scheduling to handling events
CalendarStartPopping ==
  /\ cal_pc = "insert"
  /\ cal_pc' = "pop"
  /\ UNCHANGED <<cal_queue, cal_inserted, cal_popped>>
  /\ UNCHANGED outside_cal

\* Calendar::pop_next()
CalendarPopNext ==
  /\ cal_pc = "pop"
  /\ calendar_has_events(cal_queue)
  /\ cal_queue' = pop_next(cal_queue).queue
  /\ cal_popped' = Append(cal_popped, pop_next(cal_queue).event)
  /\ UNCHANGED <<cal_inserted, cal_pc>>
  /\ UNCHANGED outside_cal

NextCalendar ==
  \/ CalendarInsert
  \/ CalendarStartPopping
  \/ CalendarPopNext

SpecCalendar == InitCalendar /\ [][NextCalendar]_vars

NumTiles == 3

TileWidth == 2

NumWalls == 2

MOLECULE_ID_INVALID == 0

\* GridUtil::uv2grid_tile_index
uv2grid_tile_index(loc) == floor_div(loc[1], TileWidth)

\* the locations ray_trace_2D hands over; the last column is beyond the grid
Locations == {<<u, v>> : u \in 0..(NumTiles * TileWidth), v \in {1}}

\* Grid: tiles are counted from 0 in the code
EmptyGrid == [initialized |-> TRUE, tiles |-> [t \in 1..NumTiles |-> MOLECULE_ID_INVALID]]

NoGrid == [initialized |-> FALSE, tiles |-> <<>>]

get_molecule_on_tile(grid, tile_index) == grid.tiles[tile_index + 1]

reset_molecule_tile(grid, tile_index) ==
  [grid EXCEPT !.tiles[tile_index + 1] = MOLECULE_ID_INVALID]

set_molecule_tile(grid, tile_index, id) == [grid EXCEPT !.tiles[tile_index + 1] = id]

\* Wall::initialize_grid when the wall has no grid yet
with_initialized_grid(grid) == IF grid.initialized THEN grid ELSE EmptyGrid

\* molecule_id_on_tile != MOLECULE_ID_INVALID
tile_never_full(molecule_id_on_tile) == FALSE

tile_is_full(molecule_id_on_tile) == molecule_id_on_tile # MOLECULE_ID_INVALID

\* what a move returns and leaves behind: ret is 0, 1 or "error" for
\* mcell_internal_error
sm_result(ret, walls, mols) == [ret |-> ret, walls |-> walls, mols |-> mols]

move_sm_on_same_triangle_pos_first(walls, mols, id, new_loc) ==
  LET sm == mols[id]
      grid == walls[sm.wall_index]
      new_tile_index == uv2grid_tile_index(new_loc)
      moved == [mols EXCEPT ![id].pos = new_loc]
  IN  IF new_tile_index >= NumTiles
        THEN sm_result(2, walls, mols)
      ELSE IF new_tile_index # sm.grid_tile_index
        THEN IF tile_is_full(get_molecule_on_tile(grid, new_tile_index))
               THEN sm_result(1, walls, moved)
               ELSE sm_result(0,
                      [walls EXCEPT ![sm.wall_index] =
                         set_molecule_tile(reset_molecule_tile(@, sm.grid_tile_index),
                                           new_tile_index, id)],
                      [moved EXCEPT ![id].grid_tile_index = new_tile_index])
      ELSE sm_result(0, walls, moved)

\* move_sm_on_same_triangle(p, sm, new_loc); ret 2 stands for the internal error
move_sm_on_same_triangle(walls, mols, id, new_loc) ==
  LET sm == mols[id]
      grid == walls[sm.wall_index]
      new_tile_index == uv2grid_tile_index(new_loc)
  IN  IF new_tile_index >= NumTiles
        THEN sm_result(2, walls, mols)
      ELSE IF new_tile_index # sm.grid_tile_index
        THEN IF tile_is_full(get_molecule_on_tile(grid, new_tile_index))
               THEN sm_result(1, walls, mols)
               ELSE sm_result(0,
                      [walls EXCEPT ![sm.wall_index] =
                         set_molecule_tile(reset_molecule_tile(@, sm.grid_tile_index),
                                           new_tile_index, id)],
                      [mols EXCEPT ![id].grid_tile_index = new_tile_index,
                                   ![id].pos = new_loc])
      ELSE sm_result(0, walls, [mols EXCEPT ![id].pos = new_loc])

\* move_sm_to_new_triangle(p, sm, new_loc, new_wall_index)
move_sm_to_new_triangle(walls, mols, id, new_loc, new_wall_index) ==
  LET sm == mols[id]
      walls1 == [walls EXCEPT ![new_wall_index] = with_initialized_grid(@)]
      new_grid == walls1[new_wall_index]
      new_tile_index == uv2grid_tile_index(new_loc)
  IN  IF new_tile_index >= NumTiles
        THEN sm_result(2, walls1, mols)
      ELSE IF tile_is_full(get_molecule_on_tile(new_grid, new_tile_index))
        THEN sm_result(1, walls1, mols)
      ELSE LET walls2 == [walls1 EXCEPT ![sm.wall_index] =
                            reset_molecule_tile(@, sm.grid_tile_index)]
               walls3 == [walls2 EXCEPT ![new_wall_index] =
                            set_molecule_tile(@, new_tile_index, id)]
           IN  sm_result(0, walls3,
                         [mols EXCEPT ![id].grid_tile_index = new_tile_index,
                                      ![id].wall_index = new_wall_index,
                                      ![id].pos = new_loc])

\* a surface molecule in the middle of its tile
surface_molecule(wall_index, grid_tile_index) ==
  [wall_index |-> wall_index, grid_tile_index |-> grid_tile_index,
   pos |-> <<grid_tile_index * TileWidth + 1, 1>>]

\* the grids that record the molecules mols; a wall without molecules has
\* no grid yet
grids_of(mols) ==
  [w \in 1..NumWalls |->
     IF \E id \in DOMAIN mols : mols[id].wall_index = w
       THEN [initialized |-> TRUE,
             tiles |-> [t \in 1..NumTiles |->
                          IF \E id \in DOMAIN mols :
                               mols[id].wall_index = w /\ mols[id].grid_tile_index = t - 1
                            THEN CHOOSE id \in DOMAIN mols :
                                   mols[id].wall_index = w
                                   /\ mols[id].grid_tile_index = t - 1
                            ELSE MOLECULE_ID_INVALID]]
       ELSE NoGrid]

\* two surface molecules on different tiles, or three
InitialSurfaceMolecules ==
  {<<surface_molecule(1, 0), surface_molecule(1, 1)>>,
   <<surface_molecule(1, 2), surface_molecule(2, 2)>>,
   <<surface_molecule(1, 0), surface_molecule(1, 2), surface_molecule(2, 1)>>}

InitSurface ==
  /\ kernel_init(<<>>)
  /\ walker_off
  /\ trav_off
  /\ region_off
  /\ prod_off
  /\ refl_off
  /\ cvol_off
  /\ geom_off
  /\ restr_off
  /\ sp_off
  /\ walls_off
  /\ rx_off
  /\ cal_off
  /\ sm_mols \in InitialSurfaceMolecules
  /\ sm_walls = grids_of(sm_mols)
  /\ sm_pc = "run"
  /\ sm_last = [fn |-> "none"]

\* the state after the move r, and its record
sm_moved(fn, id, new_loc, new_wall_index, r) ==
  /\ sm_walls' = r.walls
  /\ sm_mols' = r.mols
  /\ sm_pc' = IF r.ret = 2 THEN "error" ELSE "run"
  /\ sm_last' = [fn |-> fn, id |-> id, new_loc |-> new_loc,
                 new_wall_index |-> new_wall_index, ret |-> r.ret,
                 walls_before |-> sm_walls, mols_before |-> sm_mols]

MoveOnSameTriangle ==
  /\ sm_pc = "run"
  /\ \E id \in DOMAIN sm_mols, new_loc \in Locations :
       sm_moved("move_sm_on_same_triangle", id, new_loc, sm_mols[id].wall_index,
                move_sm_on_same_triangle(sm_walls, sm_mols, id, new_loc))
  /\ UNCHANGED outside_sm

MoveToNewTriangle ==
  /\ sm_pc = "run"
  /\ \E id \in DOMAIN sm_mols, new_loc \in Locations, new_wall_index \in 1..NumWalls :
       sm_moved("move_sm_to_new_triangle", id, new_loc, new_wall_index,
                move_sm_to_new_triangle(sm_walls, sm_mols, id, new_loc, new_wall_index))
  /\ UNCHANGED outside_sm

NextSurface ==
  \/ MoveOnSameTriangle
  \/ MoveToNewTriangle

SpecSurface == InitSurface /\ [][NextSurface]_vars

\* C18: no two surface molecules are on the same tile, and the tile of every
\* surface molecule records that molecule
C18_TilesAndMoleculesAgree ==
  sm_pc # "off" =>
    /\ \A a, b \in DOMAIN sm_mols :
         (sm_mols[a].wall_index = sm_mols[b].wall_index
          /\ sm_mols[a].grid_tile_index = sm_mols[b].grid_tile_index) => a = b
    /\ \A id \in DOMAIN sm_mols :
         /\ sm_walls[sm_mols[id].wall_index].initialized
         /\ sm_mols[id].grid_tile_index \in 0..(NumTiles - 1)
         /\ get_molecule_on_tile(sm_walls[sm_mols[id].wall_index],
                                 sm_mols[id].grid_tile_index) = id

\* a molecule has crossed to the other wall, onto a tile other than the one
\* it left, while another move to an occupied tile was turned down before
C18_Witness ==
  /\ sm_last.fn = "move_sm_to_new_triangle"
  /\ sm_last.ret = 0
  /\ sm_last.mols_before[sm_last.id].grid_tile_index
       # sm_mols[sm_last.id].grid_tile_index
  /\ sm_mols[sm_last.id].wall_index = sm_last.new_wall_index
  /\ sm_last.mols_before[sm_last.id].wall_index # sm_last.new_wall_index
  /\ Len(sm_mols) = 3
  /\ \A id \in DOMAIN sm_mols : sm_mols[id].wall_index = sm_last.new_wall_index

\* the last move aimed at a tile that another molecule occupied
target_tile_occupied ==
  /\ sm_last.fn # "none"
  /\ uv2grid_tile_index(sm_last.new_loc) < NumTiles
  /\ sm_last.walls_before[sm_last.new_wall_index].initialized
  /\ get_molecule_on_tile(sm_last.walls_before[sm_last.new_wall_index],
                          uv2grid_tile_index(sm_last.new_loc))
       \notin {MOLECULE_ID_INVALID, sm_last.id}

\* C19: a move to a tile that another molecule occupies is turned down: the
\* function returns 1 and the molecules (wall, tile and position) and the
\* tiles of all grids are as they were
C19_RejectedMoveChangesNothing ==
  target_tile_occupied =>
    /\ sm_last.ret = 1
    /\ sm_mols = sm_last.mols_before
    /\ sm_walls = sm_last.walls_before

C19_Witness ==
  /\ target_tile_occupied
  /\ sm_last.fn = "move_sm_on_same_triangle"
  /\ sm_last.ret = 1
  /\ sm_last.new_loc # sm_mols[sm_last.id].pos
  /\ sm_mols = sm_last.mols_before

\* ---------------------------------------------------------------------
\* the subpartitions of a wall (geometry_utils.inc)
\*
\* Vertices have whole coordinates.  The leeway is EPS + max * EPS, far below
\* a length unit, plus rx_radius_3d when the expanded list is used; a corner
\* of the inflated box is a whole part c and the sign f of the part below a
\* length unit.

\* get_wall_bounding_box, one axis
bounding_interval(a0, a1, a2) ==
  LET llf1 == IF a1 < a0 THEN a1 ELSE a0
      urb1 == IF a1 < a0 THEN a0 ELSE IF a1 > a0 THEN a1 ELSE a0
      llf2 == IF a2 < llf1 THEN a2 ELSE llf1
      urb2 == IF a2 < llf1 THEN urb1 ELSE IF a2 > urb1 THEN a2 ELSE urb1
  IN  [llf |-> llf2, urb |-> urb2]

\* get_wall_bounding_box
get_wall_bounding_box(w_vert) ==
  LET box == [k \in 1..3 |-> bounding_interval(w_vert[1][k], w_vert[2][k], w_vert[3][k])]
  IN  [llf |-> [k \in 1..3 |-> box[k].llf], urb |-> [k \in 1..3 |-> box[k].urb]]

\* Partition::get_subpart_3d_indices of the point c + f * (a length below one unit)
get_subpart_3d_indices_near(c, f) ==
  get_subpart_3d_indices([k \in 1..3 |-> IF f < 0 THEN c[k] - 1 ELSE c[k]])

\* the three nested loops over the subpartitions between two corners, in the
\* order of the push_back calls
subparts_between(lo, hi) ==
  LET nx == hi[1] - lo[1] + 1
      ny == hi[2] - lo[2] + 1
      nz == hi[3] - lo[3] + 1
  IN  [i \in 1..(nx * ny * nz) |->
         get_subpart_index_from_3d_indices(lo[1] + ((i - 1) \div (ny * nz)),
                                           lo[2] + (((i - 1) \div nz) % ny),
                                           lo[3] + ((i - 1) % nz))]

wall_subparts_collision_test_no_leeway(w_vert, use_expanded_list) ==
  LET box == get_wall_bounding_box(w_vert)
      min_subpart_indices == get_subpart_3d_indices(box.llf)
      max_subpart_indices == get_subpart_3d_indices(box.urb)
  IN  IF max_subpart_indices = min_subpart_indices
        THEN <<get_subpartition_index_from_3d_indices(min_subpart_indices)>>
        ELSE subparts_between(min_subpart_indices, max_subpart_indices)

\* wall_subparts_collision_test(p, w, colliding_subparts)
wall_subparts_collision_test(w_vert, use_expanded_list) ==
  LET box == get_wall_bounding_box(w_vert)
      leeway == IF use_expanded_list THEN rx_radius_3d ELSE 0
      llf == [k \in 1..3 |-> box.llf[k] - leeway]
      urb == [k \in 1..3 |-> box.urb[k] + leeway]
      min_subpart_indices == get_subpart_3d_indices_near(llf, 0 - 1)
      max_subpart_indices == get_subpart_3d_indices_near(urb, 1)
  IN  IF max_subpart_indices = min_subpart_indices
        THEN <<get_subpartition_index_from_3d_indices(min_subpart_indices)>>
        ELSE subparts_between(min_subpart_indices, max_subpart_indices)

\* the walls of the modelled calls: a first vertex and the edges to the others
FirstVertices == {<<8, 8, 8>>, <<13, 10, 9>>}

EdgesToSecond ==
  {<<4, 0, 0>>, <<0 - 3, 5, 0>>, <<0, 0, 7>>, <<6, 6, 6>>, <<0 - 4, 0 - 4, 2>>, <<1, 0, 0>>}

EdgesToThird ==
  {<<0, 4, 0>>, <<5, 0 - 3, 1>>, <<0, 9, 0>>, <<0 - 2, 0 - 2, 0 - 2>>, <<0, 0, 1>>,
   <<8, 0, 0 - 4>>}

InitSubparts ==
  /\ kernel_init(<<>>)
  /\ walker_off
  /\ trav_off
  /\ region_off
  /\ prod_off
  /\ refl_off
  /\ cvol_off
  /\ geom_off
  /\ restr_off
  /\ walls_off
  /\ rx_off
  /\ cal_off
  /\ sm_off
  /\ \E v0 \in FirstVertices, e1 \in EdgesToSecond, e2 \in EdgesToThird :
       \E use_expanded_list \in BOOLEAN :
         sp_wall = [w_vert |-> <<v0, vadd(v0, e1), vadd(v0, e2)>>,
                    use_expanded_list |-> use_expanded_list]
  /\ sp_colliding_subparts = <<>>
  /\ sp_pc = "call"

WallSubpartsCollisionTest ==
  /\ sp_pc = "call"
  /\ sp_colliding_subparts' =
       wall_subparts_collision_test(sp_wall.w_vert, sp_wall.use_expanded_list)
  /\ sp_pc' = "done"
  /\ UNCHANGED sp_wall
  /\ UNCHANGED outside_sp

NextSubparts == WallSubpartsCollisionTest

SpecSubparts == InitSubparts /\ [][NextSubparts]_vars

\* the smallest and the largest coordinate of the wall on axis k
wall_min(k) ==
  CHOOSE a \in {sp_wall.w_vert[i][k] : i \in 1..3} :
    \A i \in 1..3 : a <= sp_wall.w_vert[i][k]

wall_max(k) ==
  CHOOSE a \in {sp_wall.w_vert[i][k] : i \in 1..3} :
    \A i \in 1..3 : a >= sp_wall.w_vert[i][k]

\* the box of the wall, inflated by the leeway, meets the subpartition with
\* the 3d indices i3: on every axis the box starts below the end of the
\* subpartition and does not end below its start (the part of the leeway
\* below a length unit makes the first comparison non-strict)
inflated_box_intersects(i3) ==
  LET leeway == IF sp_wall.use_expanded_list THEN rx_radius_3d ELSE 0
  IN  \A k \in 1..3 :
        /\ wall_min(k) - leeway
             <= origin_corner[k] + (i3[k] + 1) * subpartition_edge_length
        /\ wall_max(k) + leeway >= origin_corner[k] + i3[k] * subpartition_edge_length

registered_subparts == {sp_colliding_subparts[i] : i \in 1..Len(sp_colliding_subparts)}

\* C20: a subpartition is among those the wall is registered in exactly when
\* the inflated bounding box of the wall meets it, and it is listed once
C20_RegisteredIffBoxIntersects ==
  sp_pc = "done" =>
    /\ \A x, y, z \in 0..(num_subpartitions_per_partition - 1) :
         get_subpart_index_from_3d_indices(x, y, z) \in registered_subparts
           <=> inflated_box_intersects(<<x, y, z>>)
    /\ \A index \in registered_subparts : valid_subpart_index(index)
    /\ Cardinality(registered_subparts) = Len(sp_colliding_subparts)

\* a wall whose box starts on a subpartition boundary and spans several
\* subpartitions is also registered in one that holds none of its vertices
C20_Witness ==
  /\ sp_pc = "done"
  /\ ~sp_wall.use_expanded_list
  /\ wall_min(1) % subpartition_edge_length = 0
  /\ Len(sp_colliding_subparts) >= 8
  /\ \E index \in registered_subparts :
       \A i \in 1..3 : get_subpart_index(sp_wall.w_vert[i]) # index

\* ------------------- CollisionUtil::collect_crossed_subparts (walker) ----

\* Partition::is_subpart_index_in_range, for one axis index
is_subpart_index_in_range(index) ==
  index >= 0 /\ index < num_subpartitions_per_partition

\* a - r * SQRT2 < 0 for the distance a = dist_n/den and r = rx_radius:
\* the comparisons of collect_neighboring_subparts when it is handed
\* rx_radius_for_neighbors = rx_radius * SQRT2
closer_than_radius_for_neighbors(dist_n, den, rx_radius) ==
  dist_n < 0 \/ dist_n * dist_n < 2 * rx_radius * rx_radius * den * den

\* the if / else if of one axis: the low side wins, the high side is looked
\* at only when the low face is not within the radius
collect_neighboring_dir(low, high) ==
  IF low THEN 0 - 1 ELSE IF high THEN 1 ELSE 0

\* CollisionUtil::collect_neighboring_subparts as collect_crossed_subparts
\* calls it: the point is posn/den, the radius is rx_radius * SQRT2
collect_neighboring_subparts_for_neighbors(posn, den, subpart_indices, rx_radius, subpart_edge_len) ==
  LET rel(k)      == posn[k] - origin_corner[k] * den
      boundary(k) == subpart_indices[k] * subpart_edge_len * den
      dir_used(k) ==
        collect_neighboring_dir(
          closer_than_radius_for_neighbors(rel(k) - boundary(k), den, rx_radius),
          closer_than_radius_for_neighbors(
            boundary(k) + subpart_edge_len * den - rel(k), den, rx_radius))
      x == subpart_indices[1]
      y == subpart_indices[2]
      z == subpart_indices[3]
      xd == dir_used(1)
      yd == dir_used(2)
      zd == dir_used(3)
  IN  (IF xd # 0 THEN {get_subpart_index_from_3d_indices(x + xd, y, z)} ELSE {})
      \cup (IF yd # 0 THEN {get_subpart_index_from_3d_indices(x, y + yd, z)} ELSE {})
      \cup (IF zd # 0 THEN {get_subpart_index_from_3d_indices(x, y, z + zd)} ELSE {})
      \cup (IF xd # 0 /\ yd # 0
              THEN {get_subpart_index_from_3d_indices(x + xd, y + yd, z)} ELSE {})
      \cup (IF xd # 0 /\ zd # 0
              THEN {get_subpart_index_from_3d_indices(x + xd, y, z + zd)} ELSE {})
      \cup (IF yd # 0 /\ zd # 0
              THEN {get_subpart_index_from_3d_indices(x, y + yd, z + zd)} ELSE {})
      \cup (IF xd # 0 /\ yd # 0 /\ zd # 0
              THEN {get_subpart_index_from_3d_indices(x + xd, y + yd, z + zd)} ELSE {})

\* the two walkers of the sources: CollisionUtil::collect_crossed_subparts
\* (collision_utils.inc) and the static collect_crossed_subparts that
\* diffuse_single_molecule calls in diffuse_react_event.cpp
WalkerVersions == {"CollisionUtil", "diffuse_react_event"}

\* one call of collect_neighboring_subparts, kept for the properties: the
\* walker of collision_utils.inc hands over rx_radius * SQRT2, the walker of
\* diffuse_react_event.cpp hands over rx_radius
halo_call(version, posn, den, subpart_indices) ==
  [posn |-> posn, den |-> den, subpart_indices |-> subpart_indices,
   added |-> IF version = "CollisionUtil"
               THEN collect_neighboring_subparts_for_neighbors(
                      posn, den, subpart_indices, rx_radius_3d, subpartition_edge_length)
               ELSE collect_neighboring_subparts(
                      posn, den, subpart_indices, rx_radius_3d, subpartition_edge_length)]

\* start positions of the walks: inside a subpartition, on a boundary of
\* one, and in the last subpartition of every axis
WalkerStarts ==
  { <<14, 14, 14>>, <<18, 17, 18>>, <<16, 13, 2>>, <<30, 30, 30>> }

\* displacements of the walks; every component is non-zero (what
\* debug_guard_zero_div does with a zero is not part of the sources)
WalkerDisplacements ==
  { <<1, 1, 1>>, <<2, 2, 2>>, <<2, 2, 1>>, <<2, 1, 2>>, <<1, 2, 2>>,
    <<-2, 1, 2>>, <<-1, 2, 1>>, <<4, 4, 4>>, <<-5, 3, 1>>, <<3, -7, 9>>,
    <<-9, -3, -5>>, <<6, 1, -1>> }

\* the comparison while (curr_subpart_index != dest_subpart_index)
walker_at_destination(curr_subpart_index, dest_subpart_index) ==
  curr_subpart_index = dest_subpart_index

\* the state of a call before its first statement
walker_call(version, pos, displacement, collect_for_walls) ==
  [pc |-> "start", version |-> version, pos |-> pos, displacement |-> displacement,
   collect_for_walls |-> collect_for_walls,
   subpart_index |-> get_subpart_index(pos),
   tn |-> 0, td |-> 1,
   curr_subpart_indices |-> <<0, 0, 0>>,
   dest_subpart_indices |-> get_subpart_3d_indices(
                              [k \in 1..3 |-> pos[k] + displacement[k]]),
   crossed_subparts_for_walls |-> <<>>,
   crossed_subparts_for_molecules |-> {},
   last_subpart_index |-> 0 - 1,
   visited |-> <<>>,
   halo |-> <<>>,
   stop |-> "",
   axis |-> 0,
   how |-> "",
   coll_n |-> <<0, 0, 0>>, coll_d |-> <<1, 1, 1>>]

InitWalker ==
  /\ kernel_init(<<>>)
  /\ walls_off
  /\ rx_off
  /\ cal_off
  /\ sm_off
  /\ sp_off
  /\ trav_off
  /\ region_off
  /\ prod_off
  /\ refl_off
  /\ cvol_off
  /\ geom_off
  /\ restr_off
  /\ walker = [pc |-> "idle"]

\* lines 147-215: the start subpartition, the halo of the start position
\* and the choice between the loop and the same-subpartition branch
collect_crossed_start(w) ==
  LET src_subpart_indices == get_subpart_3d_indices_from_index(w.subpart_index)
      first == halo_call(w.version, w.pos, 1, src_subpart_indices)
      same  == w.dest_subpart_indices = src_subpart_indices
  IN  [w EXCEPT
        !.pc = IF same THEN "finish" ELSE "loop",
        !.crossed_subparts_for_walls =
            IF w.collect_for_walls THEN <<w.subpart_index>> ELSE <<>>,
        !.crossed_subparts_for_molecules = {w.subpart_index} \cup first.added,
        !.halo = <<first>>,
        !.curr_subpart_indices = src_subpart_indices,
        !.last_subpart_index =
            IF same THEN w.subpart_index
            ELSE get_subpartition_index_from_3d_indices(w.dest_subpart_indices),
        !.stop = IF same THEN "same subpartition" ELSE ""]

\* the same choice with x <= y in place of x < y
walker_axis_by_time_x_first(coll_n, coll_d) ==
  LET nonneg(i) == coll_n[i] >= 0
      le(i, j)  == coll_n[i] * coll_d[j] <= coll_n[j] * coll_d[i]
  IN  IF nonneg(1) /\ le(1, 2) /\ le(1, 3) THEN 1
      ELSE IF nonneg(2) /\ le(2, 3) THEN 2
      ELSE IF nonneg(3) THEN 3
      ELSE 0

\* which of the times is the smallest: the if / else if chain over
\* coll_times, the time of axis k being coll_n[k] / coll_d[k] with coll_d[k] > 0
walker_axis_by_time(coll_n, coll_d) ==
  LET nonneg(i) == coll_n[i] >= 0
      lt(i, j)  == coll_n[i] * coll_d[j] < coll_n[j] * coll_d[i]
      le(i, j)  == coll_n[i] * coll_d[j] <= coll_n[j] * coll_d[i]
  IN  IF nonneg(1) /\ lt(1, 2) /\ le(1, 3) THEN 1
      ELSE IF nonneg(2) /\ le(2, 3) THEN 2
      ELSE IF nonneg(3) THEN 3
      ELSE 0

\* the axis the loop body advances along (0: the final else, break) and
\* whether it was found by the touch test or by the collision times.  The
\* current position is pos + displacement * tn/td; diff[k] is dn(k)/td and
\* coll_times[k] = diff[k] / displacement[k] is cn(k)/cd(k) with cd(k) > 0
walker_choice(w) ==
  LET dn(k) == (origin_corner[k] + w.curr_subpart_indices[k] * subpartition_edge_length
                + (IF w.displacement[k] > 0 THEN subpartition_edge_length ELSE 0)) * w.td
               - w.pos[k] * w.td - w.displacement[k] * w.tn
      cn(k) == IF w.displacement[k] > 0 THEN dn(k) ELSE 0 - dn(k)
      cd(k) == w.td * abs(w.displacement[k])
      chose(axis, how) ==
        [axis |-> axis, how |-> how,
         coll_n |-> <<cn(1), cn(2), cn(3)>>, coll_d |-> <<cd(1), cd(2), cd(3)>>]
      \* abs(diff) < EPS, a test only collision_utils.inc has
      touching(k) == w.version = "CollisionUtil" /\ dn(k) = 0
  IN  IF touching(1) THEN chose(1, "touch")
      ELSE IF touching(2) THEN chose(2, "touch")
      ELSE IF touching(3) THEN chose(3, "touch")
      ELSE chose(walker_axis_by_time(<<cn(1), cn(2), cn(3)>>, <<cd(1), cd(2), cd(3)>>),
                 "time")

\* curr_pos += displacement * coll_times[axis] puts the position on the
\* boundary crossed: the time since the start becomes
\* (boundary - pos[axis]) / displacement[axis], written n/d with d > 0
walker_time_at_boundary(w, axis) ==
  LET edge == origin_corner[axis] + w.curr_subpart_indices[axis] * subpartition_edge_length
              + (IF w.displacement[axis] > 0 THEN subpartition_edge_length ELSE 0)
  IN  IF w.displacement[axis] > 0
        THEN [n |-> edge - w.pos[axis], d |-> w.displacement[axis]]
        ELSE [n |-> w.pos[axis] - edge, d |-> 0 - w.displacement[axis]]

\* lines 298-310: the end of an iteration that did not break
collect_crossed_advance(w, indices, curr_subpart_index, around) ==
  [w EXCEPT
    !.curr_subpart_indices = indices,
    !.crossed_subparts_for_walls =
        IF w.collect_for_walls THEN Append(@, curr_subpart_index) ELSE @,
    !.crossed_subparts_for_molecules = @ \cup {curr_subpart_index} \cup around.added,
    !.visited = Append(@, curr_subpart_index),
    !.halo = Append(@, around),
    !.pc = IF walker_at_destination(curr_subpart_index, w.last_subpart_index)
             THEN "finish" ELSE "loop",
    !.stop = IF walker_at_destination(curr_subpart_index, w.last_subpart_index)
               THEN "destination" ELSE ""]

\* the range check after the index of the chosen axis was advanced; the
\* loop of diffuse_react_event.cpp has no such check
collect_crossed_moved(w, axis, indices) ==
  IF w.version = "CollisionUtil" /\ ~is_subpart_index_in_range(indices[axis])
    THEN [w EXCEPT !.pc = "finish", !.stop = "out of range",
                   !.curr_subpart_indices = indices]
    ELSE collect_crossed_advance(
           w, indices, get_subpartition_index_from_3d_indices(indices),
           halo_call(w.version, [k \in 1..3 |-> w.pos[k] * w.td + w.displacement[k] * w.tn],
                     w.td, indices))

\* the walker once the axis is chosen: the time moves to the boundary when
\* the axis was found by the collision times, and stays for a touched one
walker_chosen(w, c) ==
  [w EXCEPT !.axis = c.axis, !.how = c.how, !.coll_n = c.coll_n, !.coll_d = c.coll_d,
            !.tn = IF c.how = "time" /\ c.axis # 0
                     THEN walker_time_at_boundary(w, c.axis).n ELSE @,
            !.td = IF c.how = "time" /\ c.axis # 0
                     THEN walker_time_at_boundary(w, c.axis).d ELSE @]

\* curr_subpart_indices after the index of the axis moved by dir_urb_addend
walker_indices_after(w, axis) ==
  [k \in 1..3 |->
     IF k # axis THEN w.curr_subpart_indices[k]
     ELSE IF w.displacement[k] > 0 THEN w.curr_subpart_indices[k] + 1
     ELSE w.curr_subpart_indices[k] - 1]

\* lines 293-295: no collision time is usable
collect_crossed_break(w) ==
  [w EXCEPT !.pc = "finish", !.stop = "no boundary ahead"]

\* lines 317-321: the halo of the destination
collect_crossed_finish(w) ==
  LET dest_pos == [k \in 1..3 |-> w.pos[k] + w.displacement[k]]
      final == halo_call(w.version, dest_pos, 1, w.dest_subpart_indices)
  IN  [w EXCEPT !.pc = "done",
                !.crossed_subparts_for_molecules = @ \cup final.added,
                !.halo = Append(@, final)]

\* diffuse_single_molecule calls collect_crossed_subparts for a molecule at
\* pos that is to move by displacement
CollectCrossedCall ==
  /\ walker.pc = "idle"
  /\ \E version \in WalkerVersions, pos \in WalkerStarts,
        displacement \in WalkerDisplacements, collect_for_walls \in BOOLEAN :
       \* only the walker of collision_utils.inc has the list for walls
       /\ collect_for_walls => version = "CollisionUtil"
       /\ walker' = walker_call(version, pos, displacement, collect_for_walls)
  /\ UNCHANGED outside_walker

CollectCrossedStart ==
  /\ walker.pc = "start"
  /\ walker' = collect_crossed_start(walker)
  /\ UNCHANGED outside_walker

\* lines 221-310: one iteration of the do-while loop
CollectCrossedStep ==
  /\ walker.pc = "loop"
  \* the model follows a loop without range check for MaxWalk iterations
  /\ walker.version = "diffuse_react_event" => Len(walker.visited) < MaxWalk
  /\ \E c \in {walker_choice(walker)} :
     \E w \in {walker_chosen(walker, c)} :
     \E indices \in {walker_indices_after(walker, c.axis)} :
       walker' = IF c.axis = 0 THEN collect_crossed_break(w)
                 ELSE collect_crossed_moved(w, c.axis, indices)
  /\ UNCHANGED outside_walker

CollectCrossedFinish ==
  /\ walker.pc = "finish"
  /\ walker' = collect_crossed_finish(walker)
  /\ UNCHANGED outside_walker

NextWalker == CollectCrossedCall \/ CollectCrossedStart \/ CollectCrossedStep \/ CollectCrossedFinish

SpecWalker == InitWalker /\ [][NextWalker]_vars

\* the call runs to its end: the loop is a loop of a sequential function
SpecWalkerFair == SpecWalker /\ WF_vars(NextWalker)

\* the destination of the walk
walker_dest_pos == [k \in 1..3 |-> walker.pos[k] + walker.displacement[k]]

\* the subpartitions collect_neighboring_subparts finds around the destination
walker_dest_halo ==
  halo_call(walker.version, walker_dest_pos, 1, walker.dest_subpart_indices).added

\* the loop ended for one of the reasons it may end for: start and
\* destination share the subpartition; or the subpartition pushed last is the
\* destination and none before it was; or the axis index advanced last left
\* 0..N-1 and the destination was never pushed
walker_stop_justified ==
  LET n == Len(walker.visited)
      at_dest(i) == walker.visited[i] = walker.last_subpart_index
  IN  \/ /\ walker.stop = "same subpartition"
         /\ n = 0
         /\ get_subpart_3d_indices(walker.pos) = walker.dest_subpart_indices
      \/ /\ walker.stop = "destination"
         /\ n > 0
         /\ at_dest(n)
         /\ \A i \in 1..(n - 1) : ~at_dest(i)
         /\ \A k \in 1..3 : is_subpart_index_in_range(walker.curr_subpart_indices[k])
      \/ /\ walker.stop = "out of range"
         /\ \A i \in 1..n : ~at_dest(i)
         /\ ~is_subpart_index_in_range(walker.curr_subpart_indices[walker.axis])

\* C21: the subpartition walker is never in its loop with an axis index
\* outside the domain: it stops as soon as an index leaves 0..N-1 (and so
\* terminates, as the indices only move away from the start)
C21_WalkerStopsWhenIndexLeavesDomain ==
  walker.pc = "loop" =>
    \A k \in 1..3 : is_subpart_index_in_range(walker.curr_subpart_indices[k])

\* the walker of collision_utils.inc does what the claim says: every call
\* reaches its end, the loop has stopped because the destination was reached
\* or an axis index left the domain, and the subpartitions around the
\* destination are in the collected set
CollisionUtilWalkerTerminates ==
  (walker.pc = "start" /\ walker.version = "CollisionUtil")
    ~> (/\ walker.pc = "done"
        /\ walker_stop_justified
        /\ walker_dest_halo \subseteq walker.crossed_subparts_for_molecules)

\* a walk of collision_utils.inc that missed a destination inside the
\* partition, left the domain, and still has the subpartitions around the
\* destination
CollisionUtilWalkerMisses ==
  /\ walker.pc = "done"
  /\ walker.version = "CollisionUtil"
  /\ walker.stop = "out of range"
  /\ in_this_partition(walker_dest_pos)
  /\ walker_dest_halo # {}
  /\ walker_dest_halo \subseteq walker.crossed_subparts_for_molecules

\* the face of subpartition call.subpart_indices on the given side
\* (-1 low, 1 high) of axis k lies within rx_radius * SQRT2 of the point
halo_face_within_radius(call, k, side) ==
  LET rel      == call.posn[k] - origin_corner[k] * call.den
      boundary == call.subpart_indices[k] * subpartition_edge_length * call.den
  IN  IF side < 0
        THEN closer_than_radius_for_neighbors(rel - boundary, call.den, rx_radius_3d)
        ELSE closer_than_radius_for_neighbors(
               boundary + subpartition_edge_length * call.den - rel, call.den, rx_radius_3d)

\* the neighbour of call.subpart_indices moved by sides[k] along every axis k
halo_neighbor(call, sides) ==
  get_subpart_index_from_3d_indices(call.subpart_indices[1] + sides[1],
                                    call.subpart_indices[2] + sides[2],
                                    call.subpart_indices[3] + sides[3])

HaloSides == {s \in [1..3 -> {0 - 1, 0, 1}] : s # <<0, 0, 0>>}

\* C22: every call of the halo insertion adds the neighbour on every side,
\* low and high, whose face lies within r * SQRT2 of the point, and the edge-
\* and corner-adjacent neighbour for every combination of such sides
C22_HaloHasEverySideWithinRadius ==
  walker.pc # "idle" =>
    \A i \in 1..Len(walker.halo) : \A sides \in HaloSides :
      (\A k \in 1..3 : sides[k] # 0 => halo_face_within_radius(walker.halo[i], k, sides[k]))
        => halo_neighbor(walker.halo[i], sides) \in walker.halo[i].added

\* what both walkers do have: a neighbour is added exactly for the
\* combinations of the one side per axis that collect_neighboring_subparts
\* chose (low before high)
HaloIsCombinationsOfChosenSides ==
  walker.pc # "idle" =>
    \A i \in 1..Len(walker.halo) :
      \E dir \in [1..3 -> {0 - 1, 0, 1}] :
        walker.halo[i].added =
          { halo_neighbor(walker.halo[i], [k \in 1..3 |-> IF k \in axes THEN dir[k] ELSE 0]) :
              axes \in {a \in SUBSET (1..3) : a # {} /\ \A k \in a : dir[k] # 0} }

\* the axes whose collision time was the smallest at the last step
walker_first_axes ==
  {a \in 1..3 : \A b \in 1..3 :
     walker.coll_n[a] * walker.coll_d[b] <= walker.coll_n[b] * walker.coll_d[a]}

\* the last step of the loop chose its axis by comparing collision times
walker_stepped_by_time ==
  walker.pc \in {"loop", "finish", "done"} /\ walker.how = "time" /\ walker.axis # 0

\* C23 as stated: when the smallest collision time belongs to more than one
\* axis, the walker crosses the boundary of the first of them in the order
\* x, y, z
C23_TieBrokenXThenYThenZ ==
  walker_stepped_by_time =>
    /\ walker.axis \in walker_first_axes
    /\ \A a \in walker_first_axes : walker.axis <= a

\* C23 amended: the walker crosses the boundary of an axis with the smallest
\* collision time, and among equal times y comes first, then x, then z
C23_TieBrokenYThenXThenZ ==
  walker_stepped_by_time =>
    walker.axis = IF 2 \in walker_first_axes THEN 2
                  ELSE IF 1 \in walker_first_axes THEN 1
                  ELSE 3

\* a step where x and y had the same collision time, smaller than that of
\* z, and the y boundary was crossed
C23_Witness ==
  /\ walker_stepped_by_time
  /\ walker_first_axes = {1, 2}
  /\ walker.axis = 2

\* ------------------------------ reaction outcomes and the molecule table ----

\* most molecules the table of this part of the model holds
MaxMolecules == 7

\* reactions with more than one product, next to those of the catalogue
RxA2 == [name |-> "A->D+E", reactants |-> <<"A">>, products |-> <<"D", "E">>]

RxAB2 == [name |-> "A+B->C+D", reactants |-> <<"A", "B">>, products |-> <<"C", "D">>]

UnimolRxs == {RxA, RxA2, RxC}

BimolRxs == {RxAB, RxAB2}

\* what a read through a reference into the old storage of the molecule
\* vector may return besides the value that was there
StalePos == <<0, 0, 0>>

\* the loop of outcome_products_random over rx->products when its parameter
\* pos is a reference: product i is created at reads[i], the value the
\* reference yields in iteration i
RECURSIVE place_products_reading(_, _, _, _, _)
place_products_reading(k, products, reads, scheduled_time, i) ==
  IF i > Len(products)
    THEN k
    ELSE
      LET new_vm == new_volume_molecule(products[i], reads[i], event_time + scheduled_time)
          new_id == Len(k.mols) + 1
          action == diffuse_or_unimol_react_action(new_id, scheduled_time,
                                                   "DIFFUSE", NullRx)
      IN  place_products_reading([k EXCEPT !.mols = Append(@, new_vm),
                                           !.queue = push_back(@, action),
                                           !.appended = Append(@, action)],
                                 products, reads, scheduled_time, i + 1)

\* outcome_unimolecular hands vm.pos, a reference into the molecule vector, to
\* outcome_products_random; add_volume_molecule may move the vector, so
\* from the second product on the read is one through a dangling reference
stale_reads_of(vm, products) ==
  {reads \in [1..Len(products) -> {vm.pos, StalePos}] :
     Len(products) >= 1 => reads[1] = vm.pos}

\* outcome_unimolecular, with the values the reads of pos yield
outcome_unimolecular_reading(k, id, time_from_event_start, unimol_rx, reads) ==
  [place_products_reading(k, unimol_rx.products, reads, time_from_event_start, 1)
     EXCEPT !.mols = set_molecule_as_defunct(@, id)]

\* the number of reads of pos that follow an append of the same call
stale_uses_of(products) == IF Len(products) > 1 THEN Len(products) - 1 ELSE 0

ProductTables ==
  { << new_volume_molecule("A", <<14, 14, 14>>, 0),
       new_volume_molecule("B", <<15, 15, 15>>, 0) >>,
    << new_volume_molecule("A", <<14, 14, 14>>, 0),
       new_volume_molecule("A", <<13, 15, 14>>, 0),
       new_volume_molecule("B", <<15, 15, 15>>, 0) >>,
    << new_volume_molecule("A", <<14, 14, 14>>, 0),
       new_volume_molecule("B", <<15, 15, 15>>, 0),
       new_volume_molecule("B", <<16, 14, 15>>, 0) >> }

InitProducts ==
  /\ kernel_init(<<>>)
  /\ walls_off
  /\ rx_off
  /\ cal_off
  /\ sm_off
  /\ sp_off
  /\ walker_off
  /\ trav_off
  /\ region_off
  /\ refl_off
  /\ cvol_off
  /\ geom_off
  /\ restr_off
  /\ \E mols \in ProductTables :
       prod = [k |-> [mols |-> mols, queue |-> <<>>, cal |-> <<>>, appended |-> <<>>],
               stale_uses |-> 0,
               last |-> [kind |-> "none", before |-> <<>>, after_append |-> <<>>,
                         n_products |-> 0, pos |-> <<0, 0, 0>>]]

\* the record of one outcome
prod_after(kind, k_before, k_appended, k_after, n_products, pos, stale) ==
  [k |-> k_after,
   stale_uses |-> stale,
   last |-> [kind |-> kind, before |-> k_before.mols, after_append |-> k_appended.mols,
             n_products |-> n_products, pos |-> pos]]

\* react_unimol_single_molecule calls outcome_unimolecular for a molecule
\* that is not defunct
OutcomeUnimolecular ==
  /\ prod # <<>>
  /\ \E id \in DOMAIN prod.k.mols, unimol_rx \in UnimolRxs :
       /\ ~is_defunct(prod.k.mols[id])
       /\ unimol_rx.reactants = <<prod.k.mols[id].species_id>>
       /\ Len(prod.k.mols) + Len(unimol_rx.products) <= MaxMolecules
       /\ \E reads \in stale_reads_of(prod.k.mols[id], unimol_rx.products) :
          \E placed \in {place_products_reading(prod.k, unimol_rx.products, reads, 1, 1)} :
          \E after \in {outcome_unimolecular_reading(prod.k, id, 1, unimol_rx, reads)} :
            prod' = prod_after("unimolecular", prod.k, placed, after,
                               Len(unimol_rx.products), prod.k.mols[id].pos,
                               stale_uses_of(unimol_rx.products))
  /\ UNCHANGED outside_prod

\* collide_and_react_with_vol_mol calls outcome_bimolecular for a collision
\* of two molecules that are not defunct; collision.pos is a member of the
\* collision record, not of the molecule vector
OutcomeBimolecular ==
  /\ prod # <<>>
  /\ \E a \in DOMAIN prod.k.mols, b \in DOMAIN prod.k.mols, rx \in BimolRxs :
       /\ ~is_defunct(prod.k.mols[a])
       /\ ~is_defunct(prod.k.mols[b])
       /\ rx.reactants = <<prod.k.mols[a].species_id, prod.k.mols[b].species_id>>
       /\ Len(prod.k.mols) + Len(rx.products) <= MaxMolecules
       /\ \E collision \in {[diffused_molecule_idx |-> a, colliding_molecule_idx |-> b,
                             rx |-> rx, d |-> 1, movelen2 |-> 2,
                             pos |-> prod.k.mols[b].pos]} :
          \E placed \in {outcome_products_random(prod.k, rx, collision.pos, 1, 2,
                                                 diffusion_time_step)} :
          \E after \in {outcome_bimolecular(prod.k, collision, diffusion_time_step)} :
            prod' = prod_after("bimolecular", prod.k, placed, after,
                               Len(rx.products), collision.pos, 0)
  /\ UNCHANGED outside_prod

NextProducts == OutcomeUnimolecular \/ OutcomeBimolecular

SpecProducts == InitProducts /\ [][NextProducts]_vars

\* the append phase of the last outcome left every molecule that was in the
\* table where it was (its id is its place in the table) and as it was
products_keep_existing ==
  /\ Len(prod.last.after_append) = Len(prod.last.before) + prod.last.n_products
  /\ \A id \in DOMAIN prod.last.before :
       prod.last.after_append[id] = prod.last.before[id]
  /\ \A id \in DOMAIN prod.last.before :
       prod.k.mols[id] = [prod.last.before[id] EXCEPT !.defunct = prod.k.mols[id].defunct]

\* C24: creating reaction products only appends records to the molecule
\* table, ids and contents of the molecules that were there are unchanged by
\* the append, and no reference into the table obtained before an append is
\* used after it
C24_ProductsOnlyAppendAndNoStaleReference ==
  prod.last.kind # "none" => products_keep_existing /\ prod.stale_uses = 0

\* the part of C24 that holds: appending leaves the existing molecules alone,
\* and the products of a bimolecular reaction are all at the collision position
ProductsOnlyAppend ==
  prod.last.kind # "none" =>
    /\ products_keep_existing
    /\ prod.last.kind = "bimolecular" =>
         \A id \in (DOMAIN prod.k.mols) \ (DOMAIN prod.last.before) :
           prod.k.mols[id].pos = prod.last.pos

\* a second product of a unimolecular reaction that is not where the
\* reactant is
ProductsSecondProductElsewhere ==
  /\ prod.last.kind = "unimolecular"
  /\ prod.last.n_products = 2
  /\ prod.k.mols[Len(prod.k.mols)].pos # prod.last.pos

\* C25: a molecule whose position is outside the partition got there by the
\* diffusion step that was handled last, that step ended the run with the
\* fatal error, and the molecule is still registered in the subpartition it
\* started from; the run is stopped for no other reason
C25_OutsideIsFatalAndNeverRegistered ==
  /\ \A id \in DOMAIN volume_molecules :
       ~in_this_partition(volume_molecules[id].pos) =>
         /\ fatal
         /\ last.kind = "diffuse"
         /\ last.id = id
         /\ last.fired = 0
         /\ in_this_partition(last.start_pos)
         /\ volume_molecules[id].subpart_index = get_subpart_index(last.start_pos)
  /\ fatal => \E id \in DOMAIN volume_molecules :
                ~in_this_partition(volume_molecules[id].pos)

\* what does hold: a molecule that is not destroyed on the way and whose
\* destination is outside the partition ends the run, and it stays registered
\* in the subpartition it started from
SurvivorOutsideIsFatal ==
  (last.kind = "diffuse" /\ last.fired = 0) =>
    /\ fatal = ~in_this_partition(volume_molecules[last.id].pos)
    /\ fatal => volume_molecules[last.id].subpart_index = get_subpart_index(last.start_pos)

\* a run stopped by a molecule that left the partition
SurvivorOutsideReached ==
  fatal /\ last.kind = "diffuse" /\ ~in_this_partition(volume_molecules[last.id].pos)

\* ---------------------------------------------------------------------
\* the reaction gates and the pathway choice as functions of their arguments
\* (reaction_utils.inc)
\*
\* A run is one call, recorded with all its arguments in rx_last.

\* classes whose min_noreaction_p is the first cumulative probability and
\* classes whose min_noreaction_p is max_fixed_p
GateRxnClasses ==
  RxnClasses \cup {[c EXCEPT !.min_noreaction_p = c.max_fixed_p] : c \in RxnClasses}

GateLocalProbFactors == LocalProbFactors \cup {rat(1, 2)}

\* the vectors of classes of the multi-class gate, with a single class of
\* several pathways among them
GateRxnClassesVectors ==
  RxnClassesVectors
    \cup {<<[RxnClass(<<1, 2, 4>>) EXCEPT !.min_noreaction_p = rat(7, 8)]>>}

SearchArrays == {c.cum_probs : c \in RxnClasses}

SearchMatches == {rat(k, 8) : k \in 0..8} \cup {rat(1, 16), rat(3, 2)}

SearchMults == {r_one, rat(2, 1), rat(1, 2)}

BinarySearchVersions == {"RxUtil", "rx_util"}

InitGate ==
  /\ kernel_init(<<>>)
  /\ walker_off
  /\ trav_off
  /\ region_off
  /\ prod_off
  /\ refl_off
  /\ cvol_off
  /\ geom_off
  /\ restr_off
  /\ sp_off
  /\ sm_off
  /\ walls_off
  /\ cal_off
  /\ rx_rng = [randcnt |-> 0]
  /\ rx_decisions = 0
  /\ rx_last = [fn |-> "none"]

\* one call of binary_search_double with max_idx the last index of A, as
\* every caller passes it
BinarySearchDouble ==
  /\ rx_decisions = 0
  /\ rx_decisions' = 1
  /\ \E version \in BinarySearchVersions, A \in SearchArrays, match \in SearchMatches,
        mult \in SearchMults :
       rx_last' = [fn |-> "binary_search_double", version |-> version, A |-> A,
                   match |-> match, max_idx |-> Len(A) - 1, mult |-> mult,
                   result |-> IF version = "RxUtil"
                                THEN binary_search_double(A, match, Len(A) - 1, mult)
                                ELSE binary_search_double_rx_util(A, match, Len(A) - 1, mult)]
  /\ UNCHANGED rx_rng
  /\ UNCHANGED outside_rx

\* one call of RxUtil::test_bimolecular
TestBimolecularGate ==
  /\ rx_decisions = 0
  /\ rx_decisions' = 1
  /\ \E rxn_class \in GateRxnClasses, U \in RngDbl, scaling \in Scalings,
        local_prob_factor \in GateLocalProbFactors :
       \E d \in {test_bimolecular(rxn_class, U, scaling, local_prob_factor)} :
         rx_last' = [fn |-> "test_bimolecular", rxn_class |-> rxn_class, rng_dbl |-> U,
                     scaling |-> scaling, local_prob_factor |-> local_prob_factor,
                     status |-> d.status, result |-> d.result]
  /\ rx_rng' = [randcnt |-> rx_rng.randcnt + 1]
  /\ UNCHANGED outside_rx

\* one call of RxUtil::test_many_bimolecular; chosen_reaction_index is the
\* caller's variable and keeps its value, RX_NO_RX here, when the function
\* returns without writing it
TestManyBimolecularGate ==
  /\ rx_decisions = 0
  /\ rx_decisions' = 1
  /\ \E rxn_classes \in GateRxnClassesVectors, U \in RngDbl,
        local_prob_factor \in GateLocalProbFactors, all_neighbors_flag \in BOOLEAN :
       \E scaling \in [1..Len(rxn_classes) -> Scalings] :
         \E d \in {test_many_bimolecular(rxn_classes, scaling, local_prob_factor, U,
                                         all_neighbors_flag)} :
           rx_last' = [fn |-> "test_many_bimolecular", rxn_classes |-> rxn_classes,
                       rng_dbl |-> U, scaling |-> scaling,
                       local_prob_factor |-> local_prob_factor,
                       all_neighbors_flag |-> all_neighbors_flag,
                       status |-> d.status, result |-> d.result,
                       chosen_reaction_index |->
                         IF "chosen_reaction_index" \in DOMAIN d
                           THEN d.chosen_reaction_index ELSE RX_NO_RX,
                       draws |-> d.draws]
  /\ \E d \in 0..1 : rx_last'.draws = d /\ rx_rng' = [randcnt |-> rx_rng.randcnt + d]
  /\ UNCHANGED outside_rx

NextGate ==
  \/ BinarySearchDouble
  \/ TestBimolecularGate
  \/ TestManyBimolecularGate

SpecGate == InitGate /\ [][NextGate]_vars

\* the indices 0..max_idx of A whose entry times mult is at least match
indices_at_least(A, match, max_idx, mult) ==
  {i \in 0..max_idx : ~r_less(r_mul(A[i + 1], mult), match)}

\* the smallest of a non-empty set of indices
smallest(S) == CHOOSE i \in S : \A j \in S : i <= j

\* the smallest index whose entry times mult is at least match, and the last
\* index when there is none
smallest_index_or_last(A, match, max_idx, mult) ==
  IF indices_at_least(A, match, max_idx, mult) = {}
    THEN max_idx
    ELSE smallest(indices_at_least(A, match, max_idx, mult))

\* C27: binary_search_double(cum_probs, p, max_idx, local_factor) returns the
\* smallest index i with p <= cum_probs[i] * local_factor, when there is such
\* an index, in both copies of the function
C27_SearchReturnsSmallestIndex ==
  (rx_last.fn = "binary_search_double"
   /\ indices_at_least(rx_last.A, rx_last.match, rx_last.max_idx, rx_last.mult) # {})
    => rx_last.result
         = smallest(indices_at_least(rx_last.A, rx_last.match, rx_last.max_idx, rx_last.mult))

\* what holds: the copy in RxUtil returns that index, and the last index when
\* p is above every entry; the copy in rx_util does so when mult = 1
RxUtilSearchReturnsSmallestIndex ==
  (rx_last.fn = "binary_search_double"
   /\ (rx_last.version = "RxUtil" \/ rx_last.mult = r_one))
    => rx_last.result
         = smallest_index_or_last(rx_last.A, rx_last.match, rx_last.max_idx, rx_last.mult)

\* a search among three entries with a multiplier that ends at the second one
RxUtilSearchReached ==
  /\ rx_last.fn = "binary_search_double"
  /\ rx_last.version = "RxUtil"
  /\ Len(rx_last.A) = 3
  /\ rx_last.mult = rat(2, 1)
  /\ rx_last.result = 1

r_max(a, b) == IF r_less(a, b) THEN b ELSE a

\* the multiplier of the pathway choice: local_prob_factor when it is positive
gate_mult(local_prob_factor) ==
  IF local_prob_factor.n > 0 THEN local_prob_factor ELSE r_one

\* the single gate decided with the threshold p_min: no reaction when
\* p = U * scaling is at least p_min, a pathway picked on p otherwise
single_gate_decides_with(p_min) ==
  r_less(p_min, rx_last.scaling) =>
    IF ~r_less(r_mul(rx_last.rng_dbl, rx_last.scaling), p_min)
      THEN rx_last.result = RX_NO_RX
      ELSE rx_last.result
             = smallest_index_or_last(rx_last.rxn_class.cum_probs,
                                      r_mul(rx_last.rng_dbl, rx_last.scaling),
                                      get_num_reactions(rx_last.rxn_class) - 1,
                                      gate_mult(rx_last.local_prob_factor))

\* C26 as stated: with p_min = min_noreaction_p * max(1, local_factor), whenever
\* p_min < scaling the single bimolecular gate returns no reaction exactly when
\* p = U * scaling >= p_min, and picks a pathway on p otherwise
C26_GateThresholdMaxOfOneAndFactor ==
  rx_last.fn = "test_bimolecular" =>
    single_gate_decides_with(r_mul(rx_last.rxn_class.min_noreaction_p,
                                   r_max(r_one, rx_last.local_prob_factor)))

\* C26: with p_min = min_noreaction_p * local_factor when local_factor is not
\* zero and p_min = min_noreaction_p when it is, whenever p_min < scaling the
\* single bimolecular gate returns no reaction exactly when
\* p = U * scaling >= p_min, and picks a pathway on p otherwise
C26_GateThresholdFactorUnlessZero ==
  rx_last.fn = "test_bimolecular" =>
    single_gate_decides_with(IF rx_last.local_prob_factor.n # 0
                               THEN r_mul(rx_last.rxn_class.min_noreaction_p,
                                          rx_last.local_prob_factor)
                               ELSE rx_last.rxn_class.min_noreaction_p)

\* a gate with local factor 1/2 whose scaled threshold is below scaling and
\* that picks a later pathway
C26_Witness ==
  /\ rx_last.fn = "test_bimolecular"
  /\ rx_last.local_prob_factor = rat(1, 2)
  /\ r_less(r_mul(rx_last.rxn_class.min_noreaction_p, rx_last.local_prob_factor),
            rx_last.scaling)
  /\ rx_last.result > 0

\* the factor of the multi-class gate: local_prob_factor for all neighbours
many_factor ==
  IF rx_last.all_neighbors_flag /\ rx_last.local_prob_factor.n > 0
    THEN rx_last.local_prob_factor ELSE r_one

\* C[i-1]: the sum over the first i classes of max_fixed_p * factor / scaling
RECURSIVE many_C_upto(_)
many_C_upto(i) ==
  IF i = 0 THEN r_zero
  ELSE r_add(many_C_upto(i - 1),
             r_div(r_mul(rx_last.rxn_classes[i].max_fixed_p, many_factor),
                   rx_last.scaling[i]))

\* C[0..n-1] of the last call of the multi-class gate (indexed from 1 here)
many_C == [i \in 1..Len(rx_last.rxn_classes) |-> many_C_upto(i)]

many_C_last == many_C[Len(rx_last.rxn_classes)]

\* the p the claim describes
many_p == IF r_less(r_one, many_C_last) THEN r_mul(rx_last.rng_dbl, many_C_last)
          ELSE rx_last.rng_dbl

\* the multi-class gate decided as the claim describes
many_gate_as_described ==
  IF ~r_less(r_one, many_C_last) /\ r_less(many_C_last, many_p)
    THEN rx_last.result = RX_NO_RX
    ELSE /\ rx_last.result \in 0..(Len(rx_last.rxn_classes) - 1)
         /\ rx_last.result
              = smallest_index_or_last(many_C, many_p, Len(rx_last.rxn_classes) - 1, r_one)
         /\ rx_last.chosen_reaction_index
              = smallest_index_or_last(
                  rx_last.rxn_classes[rx_last.result + 1].cum_probs,
                  r_mul(IF rx_last.result > 0
                          THEN r_sub(many_p, many_C[rx_last.result]) ELSE many_p,
                        rx_last.scaling[rx_last.result + 1]),
                  get_num_reactions(rx_last.rxn_classes[rx_last.result + 1]) - 1,
                  many_factor)

\* C28 as stated: the multi-class gate with n classes draws p = U * C[n-1] if
\* C[n-1] > 1 and p = U otherwise, rejects exactly when C[n-1] <= 1 and
\* p > C[n-1], and on acceptance returns the class index in 0..n-1 found by the
\* search over C and picks the pathway of that class with the residual
\* p - C[i-1] times scaling_i, for every n >= 1
C28_ManyGateAnyNumberOfClasses ==
  (rx_last.fn = "test_many_bimolecular" /\ rx_last.status = "returned")
    => many_gate_as_described

\* what holds: the gate is as described for n >= 2 classes; with one class it
\* returns what the single bimolecular gate returns, a pathway index, and
\* leaves chosen_reaction_index alone
ManyGateSeveralClasses ==
  (rx_last.fn = "test_many_bimolecular" /\ rx_last.status = "returned")
    => IF Len(rx_last.rxn_classes) >= 2
         THEN many_gate_as_described
         ELSE /\ rx_last.chosen_reaction_index = RX_NO_RX
              /\ rx_last.result
                   = test_bimolecular(rx_last.rxn_classes[1], rx_last.rng_dbl,
                                      rx_last.scaling[1],
                                      IF rx_last.all_neighbors_flag
                                        THEN rx_last.local_prob_factor ELSE r_zero).result

\* a call with three classes that accepts a later class and a later pathway
ManyGateSeveralClassesReached ==
  /\ rx_last.fn = "test_many_bimolecular"
  /\ rx_last.status = "returned"
  /\ Len(rx_last.rxn_classes) = 3
  /\ rx_last.result > 0
  /\ rx_last.chosen_reaction_index > 0

\* a call with one class that returns an index that is not a class index
ManyGateOneClassReturnsPathway ==
  /\ rx_last.fn = "test_many_bimolecular"
  /\ rx_last.status = "returned"
  /\ Len(rx_last.rxn_classes) = 1
  /\ rx_last.result >= 1

\* ---------------------------------------------------------------------
\* crossing an edge on a surface (traverse_surface, geometry_utils.inc)
\*
\* float_t is a binary floating-point number: a sum, a difference or a
\* product is rounded to the nearest number with MantissaBits significant
\* bits, ties to even.  A value x is held as the integer x * Grid; the inputs
\* are chosen so that every exact result is on that grid.

MantissaBits == 4

Grid == 32 * 32

RECURSIVE bit_length(_)
bit_length(n) == IF n = 0 THEN 0 ELSE 1 + bit_length(n \div 2)

RECURSIVE pow2(_)
pow2(k) == IF k = 0 THEN 1 ELSE 2 * pow2(k - 1)

\* n >= 0 rounded to MantissaBits significant bits, ties to even
fl_nonneg(n) ==
  IF bit_length(n) <= MantissaBits THEN n
  ELSE LET q == pow2(bit_length(n) - MantissaBits)
           r == n % q
           base == n - r
       IN  IF 2 * r < q THEN base
           ELSE IF 2 * r > q THEN base + q
           ELSE IF (base \div q) % 2 = 0 THEN base ELSE base + q

fl(n) == IF n < 0 THEN 0 - fl_nonneg(0 - n) ELSE fl_nonneg(n)

\* the floating-point operations on numbers held on the grid
f_mul(a, b) == fl((a * b) \div Grid)

f_add(a, b) == fl(a + b)

f_sub(a, b) == fl(a - b)

\* whether the operation a * b, a + b or a - b is rounded
mul_rounds(a, b) == f_mul(a, b) * Grid # a * b

add_rounds(a, b) == f_add(a, b) # a + b

sub_rounds(a, b) == f_sub(a, b) # a - b

\* the number n / d on the grid
g(n, d) == (n * Grid) \div d

\* vec2_t
uv(u, v) == [u |-> u, v |-> v]

\* Edge
Edge(forward_index, backward_index, cos_theta, sin_theta, translate) ==
  [forward_index |-> forward_index, backward_index |-> backward_index,
   cos_theta |-> cos_theta, sin_theta |-> sin_theta, translate |-> translate]

\* the rotations of the modelled edges: the quarter turns, and 45 degrees with
\* cos and sin rounded to four significant bits (11/16)
Rotations ==
  {<<g(1, 1), 0>>, <<0, g(1, 1)>>, <<0 - g(1, 1), 0>>, <<0, 0 - g(1, 1)>>,
   <<g(11, 16), g(11, 16)>>}

Translations == {uv(0, 0), uv(g(1, 4), 0 - g(2, 1)), uv(g(64, 1), g(1, 2))}

TraverseLocs == {uv(g(1, 4), g(1, 4)), uv(g(1, 1), 0 - g(3, 4)), uv(g(5, 2), g(3, 1))}

\* wall 1 is the forward wall and wall 2 the backward wall of the shared edge
SharedEdges ==
  {Edge(1, 2, r[1], r[2], t) : r \in Rotations, t \in Translations}

\* an edge of wall w that no other wall shares
edge_not_shared(w) == Edge(w, WALL_INDEX_INVALID, g(1, 1), 0, uv(0, 0))

\* Wall: index and edges[0..2]; the shared edge is edge which_edge
Wall(index, e, which_edge) ==
  [index |-> index,
   edges |-> [k \in 0..2 |-> IF k = which_edge THEN e ELSE edge_not_shared(index)]]

\* the two walls of the shared edge e: it is edge 0 of wall 1 and edge 2 of
\* wall 2
surface_walls(e) == <<Wall(1, e, 0), Wall(2, e, 2)>>

\* traverse_surface, forward branch: rotation, then translation
traverse_forward(e, loc) ==
  LET cu == f_mul(e.cos_theta, loc.u)
      sv == f_mul(e.sin_theta, loc.v)
      su == f_mul(0 - e.sin_theta, loc.u)
      cv == f_mul(e.cos_theta, loc.v)
      tmp == uv(f_add(cu, sv), f_add(su, cv))
  IN  [there |-> e.backward_index,
       newloc |-> uv(f_add(tmp.u, e.translate.u), f_add(tmp.v, e.translate.v)),
       rounded |-> \/ mul_rounds(e.cos_theta, loc.u) \/ mul_rounds(e.sin_theta, loc.v)
                   \/ mul_rounds(0 - e.sin_theta, loc.u) \/ mul_rounds(e.cos_theta, loc.v)
                   \/ add_rounds(cu, sv) \/ add_rounds(su, cv)
                   \/ add_rounds(tmp.u, e.translate.u)
                   \/ add_rounds(tmp.v, e.translate.v)]

\* traverse_surface, other branch: inverse translation, then inverse rotation
traverse_backward(e, loc) ==
  LET tmp == uv(f_sub(loc.u, e.translate.u), f_sub(loc.v, e.translate.v))
      cu == f_mul(e.cos_theta, tmp.u)
      sv == f_mul(e.sin_theta, tmp.v)
      su == f_mul(e.sin_theta, tmp.u)
      cv == f_mul(e.cos_theta, tmp.v)
  IN  [there |-> e.forward_index,
       newloc |-> uv(f_sub(cu, sv), f_add(su, cv)),
       rounded |-> \/ sub_rounds(loc.u, e.translate.u) \/ sub_rounds(loc.v, e.translate.v)
                   \/ mul_rounds(e.cos_theta, tmp.u) \/ mul_rounds(e.sin_theta, tmp.v)
                   \/ mul_rounds(e.sin_theta, tmp.u) \/ mul_rounds(e.cos_theta, tmp.v)
                   \/ sub_rounds(cu, sv) \/ add_rounds(su, cv)]

\* traverse_surface with every branch forward: the transform is never inverted
traverse_surface_always_forward(here, loc, which_edge) ==
  LET e == here.edges[which_edge]
  IN  IF e.forward_index = here.index
        THEN traverse_forward(e, loc)
        ELSE [traverse_forward(e, loc) EXCEPT !.there = e.forward_index]

traverse_surface(here, loc, which_edge) ==
  LET e == here.edges[which_edge]
  IN  IF e.forward_index = here.index
        THEN traverse_forward(e, loc)
        ELSE traverse_backward(e, loc)

MaxCrossings == 2

InitTrav ==
  /\ kernel_init(<<>>)
  /\ walker_off
  /\ region_off
  /\ prod_off
  /\ refl_off
  /\ cvol_off
  /\ geom_off
  /\ restr_off
  /\ sp_off
  /\ sm_off
  /\ walls_off
  /\ cal_off
  /\ rx_off
  /\ trav = [pc |-> "idle"]

\* a molecule is put on one of the two walls of a shared edge
TraversePlace ==
  /\ trav.pc = "idle"
  /\ \E e \in SharedEdges, loc \in TraverseLocs, start \in 1..2 :
       trav' = [pc |-> "on_wall", walls |-> surface_walls(e), e |-> e,
                start |-> start, p |-> loc, wall |-> start, loc |-> loc,
                which_edge |-> 0 - 1, crossings |-> 0, rounded |-> FALSE]
  /\ UNCHANGED outside_trav

\* traverse_surface for one edge of the wall the molecule is on
TraverseSurface ==
  /\ trav.pc = "on_wall"
  /\ trav.crossings < MaxCrossings
  /\ \E which_edge \in 0..2 :
       \E t \in {traverse_surface(trav.walls[trav.wall], trav.loc, which_edge)} :
         trav' = [trav EXCEPT !.pc = IF t.there = WALL_INDEX_INVALID
                                       THEN "edge_not_shared" ELSE "on_wall",
                              !.wall = t.there,
                              !.loc = t.newloc,
                              !.which_edge = which_edge,
                              !.crossings = @ + 1,
                              !.rounded = @ \/ t.rounded]
  /\ UNCHANGED outside_trav

NextTrav ==
  \/ TraversePlace
  \/ TraverseSurface

SpecTrav == InitTrav /\ [][NextTrav]_vars

\* the molecule started on the forward wall and crossed the shared edge twice
crossed_and_back ==
  /\ trav.pc = "on_wall"
  /\ trav.start = trav.e.forward_index
  /\ trav.crossings = 2

\* cos_theta^2 + sin_theta^2 = 1 exactly
edge_is_unit(e) ==
  e.cos_theta * e.cos_theta + e.sin_theta * e.sin_theta = Grid * Grid

\* C29 as stated: crossing a shared edge from the forward wall and crossing it
\* back from the backward wall returns the forward wall and exactly the
\* original uv point
C29_RoundTripIsExact ==
  crossed_and_back => (trav.wall = trav.start /\ trav.loc = trav.p)

\* C29: crossing a shared edge from the forward wall and crossing it back
\* returns the forward wall, and it returns exactly the original uv point
\* whenever cos_theta^2 + sin_theta^2 = 1 and no operation of the two
\* crossings is rounded
C29_RoundTripIsExactUnlessRounded ==
  crossed_and_back =>
    /\ trav.wall = trav.start
    /\ (edge_is_unit(trav.e) /\ ~trav.rounded) => trav.loc = trav.p

\* a round trip over an edge that turns by a quarter and translates, without
\* rounding
C29_Witness ==
  /\ crossed_and_back
  /\ trav.e.sin_theta # 0
  /\ trav.e.translate # uv(0, 0)
  /\ ~trav.rounded
  /\ trav.loc = trav.p

\* ---------------------------------------------------------------------
\* is a point inside a region (is_point_inside_region, collision_utils.inc)

\* a wall from its first vertex, its unit vectors and its uv vertices
wall_with_units(vert0, unit_u, unit_v, uv_vert1_u, uv_vert2) ==
  [normal |-> cross(unit_u, unit_v),
   distance_to_origin |-> dot(cross(unit_u, unit_v), vert0), vert0 |-> vert0,
   unit_u |-> unit_u, unit_v |-> unit_v,
   uv_vert1_u |-> uv_vert1_u, uv_vert2 |-> uv_vert2]

\* the two right triangles of the rectangle with corner c, sides a * ua and
\* b * ub: one with its right angle at c, one with its right angle opposite
rectangle(c, ua, a, ub, b) ==
  <<wall_with_units(c, ua, ub, a, <<0, b>>),
    wall_with_units(vadd(c, vadd(scale(a, ua), scale(b, ub))),
                    scale(0 - 1, ua), scale(0 - 1, ub), a, <<0, b>>)>>

ex == <<1, 0, 0>>

ey == <<0, 1, 0>>

ez == <<0, 0, 1>>

\* the closed box from lo with edge lengths d: bottom, top and four sides
box(lo, d) ==
  rectangle(lo, ex, d[1], ey, d[2])
    \o rectangle(vadd(lo, scale(d[3], ez)), ex, d[1], ey, d[2])
    \o rectangle(lo, ey, d[2], ez, d[3])
    \o rectangle(vadd(lo, scale(d[1], ex)), ey, d[2], ez, d[3])
    \o rectangle(lo, ez, d[3], ex, d[1])
    \o rectangle(vadd(lo, scale(d[2], ey)), ez, d[3], ex, d[1])

\* the regions: a box, a box with a second box on top of it that shares its
\* lid (the lid is a wall of the region twice), and two lone triangles
Regions ==
  {box(<<0, 0, 2>>, <<4, 4, 4>>),
   box(<<0, 0, 2>>, <<4, 4, 4>>) \o box(<<0, 0, 6>>, <<4, 4, 2>>),
   <<wall_in_z_plane(<<0, 0, 5>>, 4, <<0, 4>>),
     wall_in_z_plane(<<0 - 1, 0 - 1, 9>>, 8, <<0, 8>>)>>}

RegionPoints ==
  {<<x, y, z>> : x \in {1, 2, 3, 5}, y \in {1, 2, 3}, z \in {0, 3, 7}}

\* collide_wall_test: collide_wall without update_move; a REDO ends the run
\* with mcell_error
collide_wall_test(pos, face, move) ==
  LET res == collide_wall(pos, face, FALSE, [c |-> move, f |-> <<0, 0, 0>>], 0)
  IN  IF res.type = "WALL_MISS" THEN [collides |-> FALSE, status |-> "returned"]
      ELSE IF res.type \in {"WALL_FRONT", "WALL_BACK"}
        THEN [collides |-> TRUE, status |-> "returned"]
      ELSE [collides |-> FALSE, status |-> "mcell_error"]

\* return num_hits > 0
any_hits(num_hits) == num_hits > 0

\* return num_hits % 2 == 1
odd_number_of_hits(num_hits) == num_hits % 2 = 1

InitRegion ==
  /\ kernel_init(<<>>)
  /\ walker_off
  /\ trav_off
  /\ prod_off
  /\ refl_off
  /\ cvol_off
  /\ geom_off
  /\ restr_off
  /\ sp_off
  /\ sm_off
  /\ walls_off
  /\ cal_off
  /\ rx_off
  /\ region = [pc |-> "idle"]

\* is_point_inside_region is called: the ray and the counter are set up
IsPointInsideRegionCall ==
  /\ region.pc = "idle"
  /\ \E reg \in Regions, pos \in RegionPoints :
       region' = [pc |-> "walls", walls |-> reg, pos |-> pos,
                  move |-> <<0, 0, partition_edge_length>>,
                  it |-> 1, num_hits |-> 0, collided |-> <<>>, result |-> FALSE]
  /\ UNCHANGED outside_region

\* one iteration of the loop over the walls of the region
IsPointInsideRegionWall ==
  /\ region.pc = "walls"
  /\ region.it <= Len(region.walls)
  /\ \E t \in {collide_wall_test(region.pos, region.walls[region.it], region.move)} :
       region' = [region EXCEPT !.pc = IF t.status = "mcell_error" THEN "mcell_error"
                                       ELSE "walls",
                                !.it = @ + 1,
                                !.num_hits = IF t.collides THEN @ + 1 ELSE @,
                                !.collided = Append(@, t.collides)]
  /\ UNCHANGED outside_region

\* the loop is over and the function returns
IsPointInsideRegionReturn ==
  /\ region.pc = "walls"
  /\ region.it > Len(region.walls)
  /\ region' = [region EXCEPT !.pc = "returned",
                              !.result = odd_number_of_hits(region.num_hits)]
  /\ UNCHANGED outside_region

NextRegion ==
  \/ IsPointInsideRegionCall
  \/ IsPointInsideRegionWall
  \/ IsPointInsideRegionReturn

SpecRegion == InitRegion /\ [][NextRegion]_vars

\* the ray from pos along move crosses the plane of the wall at a parameter in
\* (0, 1] and the crossing point is strictly inside the triangle: with
\* dv = normal . move and dd = normal . (pos - vert0), the point is
\* pos - (dd / dv) move, and it is on the same side of the three edges
ray_hits_wall(pos, move, face) ==
  LET dv == dot(face.normal, move)
      dd == dot(face.normal, vsub(pos, face.vert0))
      \* X = |dv| * (crossing point), so that everything is an integer
      X == vadd(scale(abs(dv), pos), scale((0 - dd) * sign(dv), move))
      V(i) == scale(abs(dv), face_vert(face, i))
      side(i, j) == sign(dot(face.normal, cross(vsub(V(j), V(i)), vsub(X, V(i)))))
  IN  /\ dv # 0
      /\ dd * dv < 0
      /\ abs(dd) <= abs(dv)
      /\ side(0, 1) # 0
      /\ side(0, 1) = side(1, 2)
      /\ side(1, 2) = side(2, 0)

\* the walls of the region that the ray hits, by their place in the region
walls_hit ==
  {i \in 1..Len(region.walls) : ray_hits_wall(region.pos, region.move, region.walls[i])}

\* C30: is_point_inside_region returns true exactly when the number of walls
\* of the region that the ray of partition-edge length along z from the point
\* hits in their interior, front or back, is odd; it never stops on a REDO
C30_InsideIffOddNumberOfHits ==
  /\ region.pc # "mcell_error"
  /\ region.pc = "returned" =>
       /\ region.num_hits = Cardinality(walls_hit)
       /\ region.result = (Cardinality(walls_hit) % 2 = 1)
       /\ \A i \in 1..Len(region.walls) : region.collided[i] = (i \in walls_hit)

\* a point inside the box under the second box: the ray hits the shared lid
\* twice and the top once, and the point is found inside
C30_Witness ==
  /\ region.pc = "returned"
  /\ Len(region.walls) = 24
  /\ region.num_hits = 3
  /\ region.result

\* ---------------------------------------------------------------------
\* reflection off a wall (reflect_or_periodic_bc, collision_utils.inc)
\*
\* Lengths and times are exact fractions.

\* a vector of fractions from a vector of integers over one denominator
rvec(a, d) == <<rat(a[1], d), rat(a[2], d), rat(a[3], d)>>

rv_add(a, b) == <<r_add(a[1], b[1]), r_add(a[2], b[2]), r_add(a[3], b[3])>>

rv_scale(k, a) == <<r_mul(k, a[1]), r_mul(k, a[2]), r_mul(k, a[3])>>

rv_dot(a, b) == r_add(r_mul(a[1], b[1]), r_add(r_mul(a[2], b[2]), r_mul(a[3], b[3])))

rv_cross(a, b) ==
  <<r_sub(r_mul(a[2], b[3]), r_mul(a[3], b[2])),
    r_sub(r_mul(a[3], b[1]), r_mul(a[1], b[3])),
    r_sub(r_mul(a[1], b[2]), r_mul(a[2], b[1]))>>

rv_zero == rvec(<<0, 0, 0>>, 1)

\* the unit normals of the walls of the partition: wall i has normal
\* ReflectNormals[i]; walls 1 and 2, 3 and 4, 5 and 6 are parallel
ReflectNormals ==
  <<rvec(<<0, 0, 1>>, 1), rvec(<<0, 0, 0 - 1>>, 1),
    rvec(<<3, 4, 0>>, 5), rvec(<<3, 4, 0>>, 5),
    rvec(<<2, 0 - 1, 2>>, 3), rvec(<<0 - 2, 1, 0 - 2>>, 3)>>

ReflectDisplacements ==
  {rvec(<<1, 2, 0 - 2>>, 1), rvec(<<0 - 3, 1, 1>>, 2), rvec(<<0, 0, 2>>, 1),
   rvec(<<4, 0 - 3, 0>>, 1)}

\* collision.time of the hits
ReflectTimes == {rat(1, 4), rat(1, 2), rat(1, 1)}

MaxReflections == 2

\* reflect_or_periodic_bc with the component along the normal removed, not
\* mirrored
reflect_or_periodic_bc_no_mirror(collision, vm, displacement, remaining_time_step, normal) ==
  LET reflect_t == collision.time
      reflect_factor == r_mul(rat(0 - 1, 1), rv_dot(displacement, normal))
  IN  [vm |-> [vm EXCEPT !.pos = collision.pos],
       remaining_time_step |-> r_mul(remaining_time_step, r_sub(r_one, reflect_t)),
       reflected_wall_index |-> collision.colliding_wall_index,
       displacement |-> rv_scale(r_sub(r_one, reflect_t),
                                 rv_add(displacement, rv_scale(reflect_factor, normal))),
       result |-> 0]

\* reflect_or_periodic_bc with reflect_factor = 2 * dot(displacement, normal)
reflect_or_periodic_bc_plus(collision, vm, displacement, remaining_time_step, normal) ==
  LET reflect_t == collision.time
      reflect_factor == r_mul(rat(2, 1), rv_dot(displacement, normal))
  IN  [vm |-> [vm EXCEPT !.pos = collision.pos],
       remaining_time_step |-> r_mul(remaining_time_step, r_sub(r_one, reflect_t)),
       reflected_wall_index |-> collision.colliding_wall_index,
       displacement |-> rv_scale(r_sub(r_one, reflect_t),
                                 rv_add(displacement, rv_scale(reflect_factor, normal))),
       result |-> 0]

\* reflect_or_periodic_bc(p, collision, vm, displacement, remaining_time_step,
\* reflected_wall_index); normal is p.get_wall(collision.colliding_wall_index).normal
reflect_or_periodic_bc(collision, vm, displacement, remaining_time_step, normal) ==
  LET reflect_t == collision.time
      reflect_factor == r_mul(rat(0 - 2, 1), rv_dot(displacement, normal))
  IN  [vm |-> [vm EXCEPT !.pos = collision.pos],
       remaining_time_step |-> r_mul(remaining_time_step, r_sub(r_one, reflect_t)),
       reflected_wall_index |-> collision.colliding_wall_index,
       displacement |-> rv_scale(r_sub(r_one, reflect_t),
                                 rv_add(displacement, rv_scale(reflect_factor, normal))),
       result |-> 0]

InitReflect ==
  /\ kernel_init(<<>>)
  /\ walker_off
  /\ trav_off
  /\ region_off
  /\ prod_off
  /\ cvol_off
  /\ geom_off
  /\ restr_off
  /\ sp_off
  /\ sm_off
  /\ walls_off
  /\ cal_off
  /\ rx_off
  /\ refl = [pc |-> "idle"]

\* a molecule at the origin of its step draws a displacement
ReflectStep ==
  /\ refl.pc = "idle"
  /\ \E displacement \in ReflectDisplacements :
       refl' = [pc |-> "moving", vm |-> [pos |-> rv_zero], input |-> displacement,
                displacement |-> displacement, remaining_time_step |-> r_one,
                reflected_wall_index |-> WALL_INDEX_INVALID, hits |-> <<>>]
  /\ UNCHANGED outside_refl

\* the ray hits a wall at collision.time of the displacement and
\* reflect_or_periodic_bc is called for the hit
ReflectOrPeriodicBc ==
  /\ refl.pc = "moving"
  /\ Len(refl.hits) < MaxReflections
  /\ \E w \in 1..Len(ReflectNormals), t \in ReflectTimes :
       /\ w # refl.reflected_wall_index
       /\ \E collision \in {[colliding_wall_index |-> w, time |-> t,
                            pos |-> rv_add(refl.vm.pos, rv_scale(t, refl.displacement))]} :
            \E r \in {reflect_or_periodic_bc(collision, refl.vm, refl.displacement,
                                             refl.remaining_time_step, ReflectNormals[w])} :
              refl' = [refl EXCEPT !.vm = r.vm,
                                   !.displacement = r.displacement,
                                   !.remaining_time_step = r.remaining_time_step,
                                   !.reflected_wall_index = r.reflected_wall_index,
                                   !.hits = Append(@, [collision |-> collision,
                                                       before |-> refl.displacement,
                                                       after |-> r.displacement])]
  /\ UNCHANGED outside_refl

NextReflect ==
  \/ ReflectStep
  \/ ReflectOrPeriodicBc

SpecReflect == InitReflect /\ [][NextReflect]_vars

\* the last hit of the molecule
last_hit == refl.hits[Len(refl.hits)]

last_hit_normal == ReflectNormals[last_hit.collision.colliding_wall_index]

\* (d + k (d . n) n) (1 - tau) for the last hit
reflected_with(k) ==
  rv_scale(r_sub(r_one, last_hit.collision.time),
           rv_add(last_hit.before,
                  rv_scale(r_mul(rat(k, 1), rv_dot(last_hit.before, last_hit_normal)),
                           last_hit_normal)))

reflected_once == refl.pc = "moving" /\ Len(refl.hits) >= 1

\* C31 as stated: after a reflection at hit fraction tau off a wall with unit
\* normal n the displacement for the rest of the step is
\* (d + 2 (d . n) n) (1 - tau)
C31_ReflectedPlusTwiceNormalPart ==
  reflected_once => refl.displacement = reflected_with(2)

\* C31: after a reflection at hit fraction tau off a wall with unit normal n
\* the displacement for the rest of the step is (d - 2 (d . n) n) (1 - tau)
C31_ReflectedMinusTwiceNormalPart ==
  reflected_once => refl.displacement = reflected_with(0 - 2)

\* a reflection at half of the step off a wall that is oblique to the axes,
\* with a displacement that is not along the wall
C31_Witness ==
  /\ reflected_once
  /\ last_hit.collision.colliding_wall_index = 5
  /\ last_hit.collision.time = rat(1, 2)
  /\ rv_dot(last_hit.before, last_hit_normal) # r_zero
  /\ refl.displacement # rv_scale(rat(1, 2), last_hit.before)

\* the normals of two walls are equal or opposite
parallel_walls(w1, w2) ==
  rv_cross(ReflectNormals[w1], ReflectNormals[w2]) = rv_zero

reflected_twice_off_parallel_walls ==
  /\ refl.pc = "moving"
  /\ Len(refl.hits) = 2
  /\ parallel_walls(refl.hits[1].collision.colliding_wall_index,
                    refl.hits[2].collision.colliding_wall_index)

\* C32: after two successive reflections off parallel walls the displacement
\* is parallel to the displacement the step started with: it is that
\* displacement times (1 - tau1) (1 - tau2)
C32_TwoReflectionsOffParallelWalls ==
  reflected_twice_off_parallel_walls =>
    /\ rv_cross(refl.displacement, refl.input) = rv_zero
    /\ refl.displacement
         = rv_scale(r_mul(r_sub(r_one, refl.hits[1].collision.time),
                          r_sub(r_one, refl.hits[2].collision.time)), refl.input)

\* two reflections off the oblique parallel walls 5 and 6 that both turned the
\* displacement
C32_Witness ==
  /\ reflected_twice_off_parallel_walls
  /\ refl.hits[1].collision.colliding_wall_index = 5
  /\ refl.hits[1].after # rv_scale(r_sub(r_one, refl.hits[1].collision.time), refl.input)
  /\ refl.displacement # rv_zero
  /\ refl.displacement # refl.input

\* ---------------------------------------------------------------------------
\* Counted volumes (counted_volumes_util.cpp): initialize_counted_volumes
\* converts every counted object to polydata, computes for every pair which
\* object lies in which, and gives every object its direct parent.
\*
\* The geometry objects are axis-aligned cubes [lo, hi]^3, written <<lo, hi>>;
\* an object whose surface is not closed is such a cube with one triangle
\* missing.  The geometry_object_id of an object is its place in the world.
\* ---------------------------------------------------------------------------
MaxCountedObjects == 3

CountedBoxes == {<<0, 10>>, <<2, 8>>, <<4, 6>>, <<12, 14>>, <<5, 12>>}

\* what a vtkPolyData::New() holds before anything is stored in it
EmptyPolydata == <<>>

CountedGeometries ==
  UNION {{bs \in [1..n -> CountedBoxes] : \A i, j \in 1..n : i # j => bs[i] # bs[j]} :
         n \in 1..MaxCountedObjects}

\* at most one object with an open surface, and the last object may be one
\* that is not counted
CountedWorlds ==
  {[i \in 1..Len(bs) |-> [box |-> bs[i], closed |-> i # open,
                         is_counted_volume |-> i # uncounted]] :
     bs \in CountedGeometries, open \in 0..MaxCountedObjects, uncounted \in {0, MaxCountedObjects}}

\* vtkSelectEnclosedPoints::IsSurfaceClosed on the cleaned triangles
IsSurfaceClosed(obj) == IF obj.closed THEN 1 ELSE 0

\* one pass of the loop of convert_objects_to_clean_polydata: the polydata of
\* an object that is not closed stays the empty one and res becomes false
convert_objects_to_clean_polydata(world, counted_objects) ==
  [polydata |-> [id \in counted_objects |->
                   IF IsSurfaceClosed(world[id]) # 1 THEN EmptyPolydata ELSE world[id].box],
   res |-> \A id \in counted_objects : IsSurfaceClosed(world[id]) = 1]

\* the surfaces of two cubes have a contact unless one cube lies strictly
\* inside the other or the cubes are apart
number_of_contacts(poly1, poly2) ==
  IF \/ poly1 = EmptyPolydata
     \/ poly2 = EmptyPolydata
     \/ poly1[2] < poly2[1]
     \/ poly2[2] < poly1[1]
     \/ poly2[1] < poly1[1] /\ poly1[2] < poly2[2]
     \/ poly1[1] < poly2[1] /\ poly2[2] < poly1[2]
  THEN 0 ELSE 1

\* some point of poly1 is enclosed by the surface poly2
is_noncolliding_obj1_fully_contained_in_obj2(poly1, poly2) ==
  /\ poly1 # EmptyPolydata
  /\ poly2 # EmptyPolydata
  /\ poly2[1] < poly1[1]
  /\ poly1[2] < poly2[2]

objs_have_identical_points(poly1, poly2) == poly1 = poly2

geom_object_containment_test(poly1, poly2) ==
  IF number_of_contacts(poly1, poly2) = 0
  THEN IF is_noncolliding_obj1_fully_contained_in_obj2(poly1, poly2) THEN "Obj1InObj2"
       ELSE IF is_noncolliding_obj1_fully_contained_in_obj2(poly2, poly1) THEN "Obj2InObj1"
       ELSE "Disjoint"
  ELSE IF objs_have_identical_points(poly1, poly2) THEN "Identical"
       ELSE "Intersect"

\* the pairs obj1 < obj2 of the double loop
counted_pairs(counted_objects) ==
  {pr \in counted_objects \X counted_objects : pr[1] < pr[2]}

\* contained_in_mapping has an entry only for an object that lies in another
compute_containement_mapping(counted_objects, polydata) ==
  LET test(pr) == geom_object_containment_test(polydata[pr[1]], polydata[pr[2]])
      parents(o) == {p \in counted_objects :
                       \/ o < p /\ test(<<o, p>>) = "Obj1InObj2"
                       \/ p < o /\ test(<<p, o>>) = "Obj2InObj1"}
  IN  [contained_in_mapping |->
         [o \in {c \in counted_objects : parents(c) # {}} |-> parents(o)],
       res |-> \A pr \in counted_pairs(counted_objects) :
                 test(pr) \in {"Obj1InObj2", "Obj2InObj1", "Disjoint"}]

nullptr == [found |-> FALSE]

\* the loop of get_direct_parent over the parents still to be tried, in the
\* order of the set, which is the order of the geometry_object_id
RECURSIVE direct_parent_loop(_, _, _)
direct_parent_loop(todo, obj_contained_in, contained_in_mapping) ==
  IF todo = {} THEN nullptr
  ELSE LET parent == smallest(todo)
           obj_contained_in_less_p == obj_contained_in \ {parent}
       IN  IF parent \notin DOMAIN contained_in_mapping
           THEN [found |-> TRUE, id |-> parent]
           ELSE IF obj_contained_in_less_p = contained_in_mapping[parent]
           THEN [found |-> TRUE, id |-> parent]
           ELSE direct_parent_loop(todo \ {parent}, obj_contained_in, contained_in_mapping)

get_direct_parent(obj_info, contained_in_mapping) ==
  IF obj_info \notin DOMAIN contained_in_mapping THEN nullptr
  ELSE direct_parent_loop(contained_in_mapping[obj_info], contained_in_mapping[obj_info],
                          contained_in_mapping)

COUNTED_VOLUME_ID_OUTSIDE_ALL == "outside_all"

\* counted_volume_id_outside of every counted object
define_counted_volumes(counted_objects, contained_in_mapping) ==
  [obj_info \in counted_objects |->
     LET direct_parent_obj == get_direct_parent(obj_info, contained_in_mapping)
     IN  [direct_parent |-> direct_parent_obj,
          counted_volume_id_outside |->
            IF direct_parent_obj # nullptr THEN <<direct_parent_obj.id>>
            ELSE <<COUNTED_VOLUME_ID_OUTSIDE_ALL>>]]

InitCounted ==
  /\ kernel_init(<<>>)
  /\ walker_off
  /\ trav_off
  /\ region_off
  /\ prod_off
  /\ refl_off
  /\ geom_off
  /\ restr_off
  /\ sp_off
  /\ sm_off
  /\ walls_off
  /\ cal_off
  /\ rx_off
  /\ cvol = [pc |-> "idle"]

\* a world with its geometry objects is set up
CountedWorld ==
  /\ cvol.pc = "idle"
  /\ \E world \in CountedWorlds : cvol' = [pc |-> "world", world |-> world]
  /\ UNCHANGED outside_cvol

\* initialize_counted_volumes.  The containment test asserts that both
\* surfaces are closed: a build with assertions stops there when it is handed
\* the empty polydata of an object that is not closed, a build without them
\* goes on.
InitializeCountedVolumes ==
  /\ cvol.pc = "world"
  /\ \E assertions \in BOOLEAN :
       LET world == cvol.world
           counted_objects == {id \in 1..Len(world) : world[id].is_counted_volume}
           converted == convert_objects_to_clean_polydata(world, counted_objects)
           asserted == \E pr \in counted_pairs(counted_objects) :
                         \/ converted.polydata[pr[1]] = EmptyPolydata
                         \/ converted.polydata[pr[2]] = EmptyPolydata
           mapped == compute_containement_mapping(counted_objects, converted.polydata)
       IN  IF assertions /\ asserted
           THEN cvol' = [pc |-> "aborted", world |-> world, counted_objects |-> counted_objects,
                         converted |-> converted.res]
           ELSE IF ~mapped.res
           THEN cvol' = [pc |-> "returned", world |-> world, counted_objects |-> counted_objects,
                         converted |-> converted.res,
                         contained_in_mapping |-> mapped.contained_in_mapping,
                         volumes |-> <<>>, result |-> FALSE]
           ELSE cvol' = [pc |-> "returned", world |-> world, counted_objects |-> counted_objects,
                         converted |-> converted.res,
                         contained_in_mapping |-> mapped.contained_in_mapping,
                         volumes |-> define_counted_volumes(counted_objects,
                                                            mapped.contained_in_mapping),
                         result |-> TRUE]
  /\ UNCHANGED outside_cvol

NextCounted ==
  \/ CountedWorld
  \/ InitializeCountedVolumes

SpecCounted == InitCounted /\ [][NextCounted]_vars

\* some counted object of the world has a surface that is not closed
some_counted_object_not_closed ==
  \E id \in cvol.counted_objects : ~cvol.world[id].closed

\* C33: when the surface of a counted object is not closed,
\* initialize_counted_volumes does not return true.
C33_NotClosedDoesNotReturnTrue ==
  (cvol_off = FALSE /\ cvol.pc = "returned" /\ some_counted_object_not_closed)
    => cvol.result # TRUE

\* the conversion itself does report the open surface
NotClosedConversionReportsFailure ==
  (cvol_off = FALSE /\ cvol.pc \in {"returned", "aborted"})
    => (cvol.converted = ~some_counted_object_not_closed)

\* the objects obj lies in, an object without an entry lying in none
contained_in(obj) ==
  IF obj \in DOMAIN cvol.contained_in_mapping THEN cvol.contained_in_mapping[obj] ELSE {}

\* C39: the direct parent that get_direct_parent returns for obj is the p in
\* contained_in(obj) with contained_in(p) = contained_in(obj) without p.
C39_DirectParentIsClosestContainer ==
  (cvol_off = FALSE /\ cvol.pc = "returned" /\ cvol.result)
    => \A obj \in cvol.counted_objects :
         cvol.volumes[obj].direct_parent.found
           => LET p == cvol.volumes[obj].direct_parent.id
              IN  /\ p \in contained_in(obj)
                  /\ contained_in(p) = contained_in(obj) \ {p}

\* in a world where no object lies in an object of a larger id the returned
\* parent is the closest container
parents_have_larger_ids ==
  \A obj \in cvol.counted_objects : \A p \in contained_in(obj) : obj < p

DirectParentIsClosestContainerWhenSortedInward ==
  (cvol_off = FALSE /\ cvol.pc = "returned" /\ cvol.result)
    => \A obj \in cvol.counted_objects :
         (cvol.volumes[obj].direct_parent.found /\ \A p \in contained_in(obj) :
            \A q \in contained_in(p) : p < q)
           => LET p == cvol.volumes[obj].direct_parent.id
              IN  /\ p \in contained_in(obj)
                  /\ contained_in(p) = contained_in(obj) \ {p}

\* an object in two nested objects got a direct parent
NestedTwiceReached ==
  /\ cvol_off = FALSE
  /\ cvol.pc = "returned"
  /\ cvol.result
  /\ \E obj \in cvol.counted_objects :
       /\ Cardinality(contained_in(obj)) = 2
       /\ cvol.volumes[obj].direct_parent.found
       /\ \A p \in contained_in(obj) : \A q \in contained_in(p) : p < q

\* ---------------------------------------------------------------------------
\* API::GeometryObject::check_semantics (libmcell/api/geometry_object.h)
\* ---------------------------------------------------------------------------
MaxElements == 2

\* vertex lists: three triplets, three items of which the second is a pair,
\* four triplets
GeomVertexLists ==
  {<<<<0, 0, 0>>, <<1, 0, 0>>, <<0, 1, 0>>>>,
   <<<<0, 0, 0>>, <<1, 0>>, <<0, 1, 0>>>>,
   <<<<0, 0, 0>>, <<1, 0, 0>>, <<0, 1, 0>>, <<0, 0, 1>>>>}

GeomElements ==
  {<<0, 1, 2>>, <<2, 1, 0>>, <<0, 1>>, <<0, 1, 2, 3>>, <<0, 1, 3>>, <<0 - 1, 0, 1>>}

GeomElementConnections ==
  UNION {[1..n -> GeomElements] : n \in 0..MaxElements}

\* the first item of the list whose size is not 3, as the loops meet it
first_not_triplet(list) ==
  list[smallest({i \in 1..Len(list) : Len(list[i]) # 3})]

\* check_semantics: the loop over vertex_list, then the loop over
\* element_connections.  The loop over the vertex indices of an element
\* stands inside the branch e.size() != 3 behind its throw, so it never runs.
check_semantics(vertex_list, element_connections) ==
  IF \E i \in 1..Len(vertex_list) : Len(vertex_list[i]) # 3
  THEN [raised |-> "ValueError", argument |-> "vertex_list",
        item |-> first_not_triplet(vertex_list)]
  ELSE IF \E i \in 1..Len(element_connections) : Len(element_connections[i]) # 3
  THEN [raised |-> "ValueError", argument |-> "element_connections",
        item |-> first_not_triplet(element_connections)]
  ELSE [raised |-> "nothing"]

InitGeom ==
  /\ kernel_init(<<>>)
  /\ walker_off
  /\ trav_off
  /\ region_off
  /\ prod_off
  /\ refl_off
  /\ cvol_off
  /\ restr_off
  /\ sp_off
  /\ sm_off
  /\ walls_off
  /\ cal_off
  /\ rx_off
  /\ geom = [pc |-> "idle"]

\* the constructor stores its arguments
GeometryObjectCtor ==
  /\ geom.pc = "idle"
  /\ \E vertex_list \in GeomVertexLists, element_connections \in GeomElementConnections :
       geom' = [pc |-> "constructed", vertex_list |-> vertex_list,
                element_connections |-> element_connections]
  /\ UNCHANGED outside_geom

CheckSemantics ==
  /\ geom.pc = "constructed"
  /\ geom' = [pc |-> "checked", vertex_list |-> geom.vertex_list,
              element_connections |-> geom.element_connections,
              result |-> check_semantics(geom.vertex_list, geom.element_connections)]
  /\ UNCHANGED outside_geom

NextGeom ==
  \/ GeometryObjectCtor
  \/ CheckSemantics

SpecGeom == InitGeom /\ [][NextGeom]_vars

geom_checked == geom_off = FALSE /\ geom.pc = "checked"

some_element_not_triplet ==
  \E i \in 1..Len(geom.element_connections) : Len(geom.element_connections[i]) # 3

some_vertex_index_out_of_range ==
  \E i \in 1..Len(geom.element_connections) :
    \E k \in 1..Len(geom.element_connections[i]) :
      \/ geom.element_connections[i][k] < 0
      \/ geom.element_connections[i][k] >= Len(geom.vertex_list)

\* C38: check_semantics raises ValueError when an entry of
\* element_connections is not a triplet and when an entry holds a vertex
\* index below 0 or not below the length of vertex_list.
C38_BadElementRaisesValueError ==
  (geom_checked /\ (some_element_not_triplet \/ some_vertex_index_out_of_range))
    => geom.result.raised = "ValueError"

\* the part about the size of the entries holds
NotTripletRaisesValueError ==
  (geom_checked /\ some_element_not_triplet) => geom.result.raised = "ValueError"

NotTripletReached ==
  /\ geom_checked
  /\ some_element_not_triplet
  /\ geom.result.raised = "ValueError"
  /\ geom.result.argument = "element_connections"

\* ---------------------------------------------------------------------------
\* Restricted regions of two walls (wall_utils.inc): a region is restricted
\* for a surface molecule when its surface class reflects or absorbs the
\* species of the molecule at the region border.
\* ---------------------------------------------------------------------------
\* the surface class (species_id) of every region of the partition
RestrRegionClass == <<"reflective_class", "absorptive_class", "transparent_class">>

RestrRegionIndices == 1..Len(RestrRegionClass)

\* RxUtil::trigger_intersect: the reaction classes of the molecule with the
\* surface classes of the regions of the wall
trigger_intersect(sm, this_wall) ==
  {[reactants |-> <<sm.species_id, RestrRegionClass[r]>>,
    is_reflect |-> RestrRegionClass[r] = "reflective_class",
    is_absorb |-> RestrRegionClass[r] = "absorptive_class"] : r \in this_wall.regions}

find_restricted_regions_by_wall(this_wall, sm) ==
  IF ~sm.can_region_border THEN {}
  ELSE LET matching_rxns == trigger_intersect(sm, this_wall)
           restricted_surf_classes ==
             {rxn.reactants[2] : rxn \in {x \in matching_rxns : x.is_reflect \/ x.is_absorb}}
       IN  {region_index \in this_wall.regions :
              RestrRegionClass[region_index] \in restricted_surf_classes}

wall_belongs_to_all_regions_in_region_list(this_wall, regions) ==
  IF regions = {} THEN FALSE
  ELSE \A region_index \in regions : region_index \in this_wall.regions

walls_belong_to_at_least_one_different_restricted_region(w1, sm1, w2, sm2) ==
  LET regions1 == find_restricted_regions_by_wall(w1, sm1)
      regions2 == find_restricted_regions_by_wall(w2, sm2)
  IN  IF regions1 = {} /\ regions2 = {} THEN FALSE
      ELSE IF regions1 = {}
      THEN ~wall_belongs_to_all_regions_in_region_list(w1, regions2)
      ELSE IF regions2 = {}
      THEN ~wall_belongs_to_all_regions_in_region_list(w2, regions1)
      ELSE \E region_index \in regions1 : region_index \in regions2

InitRestr ==
  /\ kernel_init(<<>>)
  /\ walker_off
  /\ trav_off
  /\ region_off
  /\ prod_off
  /\ refl_off
  /\ cvol_off
  /\ geom_off
  /\ sp_off
  /\ sm_off
  /\ walls_off
  /\ cal_off
  /\ rx_off
  /\ restr = [pc |-> "idle"]

\* a surface molecule on wall 1 is about to move to wall 2
RestrWalls ==
  /\ restr.pc = "idle"
  /\ \E regions1 \in SUBSET RestrRegionIndices, regions2 \in SUBSET RestrRegionIndices,
        can_region_border \in BOOLEAN :
       restr' = [pc |-> "walls", w1 |-> [regions |-> regions1], w2 |-> [regions |-> regions2],
                 sm |-> [species_id |-> "sm_species", can_region_border |-> can_region_border]]
  /\ UNCHANGED outside_restr

WallsBelongToAtLeastOneDifferentRestrictedRegion ==
  /\ restr.pc = "walls"
  /\ restr' = [pc |-> "returned", w1 |-> restr.w1, w2 |-> restr.w2, sm |-> restr.sm,
               result |-> walls_belong_to_at_least_one_different_restricted_region(
                            restr.w1, restr.sm, restr.w2, restr.sm)]
  /\ UNCHANGED outside_restr

NextRestr ==
  \/ RestrWalls
  \/ WallsBelongToAtLeastOneDifferentRestrictedRegion

SpecRestr == InitRestr /\ [][NextRestr]_vars

restr_returned == restr_off = FALSE /\ restr.pc = "returned"

\* the regions of the partition that are restricted for the molecule
restricted_regions_of_molecule ==
  {r \in RestrRegionIndices :
     /\ restr.sm.can_region_border
     /\ RestrRegionClass[r] \in {"reflective_class", "absorptive_class"}}

some_restricted_region_holds_one_wall_only ==
  \E r \in restricted_regions_of_molecule :
    (r \in restr.w1.regions) # (r \in restr.w2.regions)

\* C40: the function returns true exactly when some restricted region
\* contains one of the two walls but not the other.
C40_TrueIffDifferentRestrictedRegion ==
  restr_returned => (restr.result = some_restricted_region_holds_one_wall_only)

one_wall_in_no_restricted_region ==
  \/ restr.w1.regions \cap restricted_regions_of_molecule = {}
  \/ restr.w2.regions \cap restricted_regions_of_molecule = {}

\* when one of the walls lies in no restricted region the answer is the
\* described one
DifferentRestrictedRegionWhenOneWallFree ==
  (restr_returned /\ one_wall_in_no_restricted_region)
    => (restr.result = some_restricted_region_holds_one_wall_only)

\* when both walls lie in restricted regions the answer tells whether they
\* share one
SharedRestrictedRegionWhenBothRestricted ==
  (restr_returned /\ ~one_wall_in_no_restricted_region)
    => (restr.result = (restr.w1.regions \cap restr.w2.regions
                          \cap restricted_regions_of_molecule # {}))

OneWallFreeReached ==
  /\ restr_returned
  /\ one_wall_in_no_restricted_region
  /\ restr.result

\* ---------------------------------------------------------------------------
\* The closest wall hit of collect_wall_collisions
\* ---------------------------------------------------------------------------
\* the collected hits that are not immediate
non_immediate_hits ==
  {i \in 1..Len(wall_collisions) :
     ~is_immediate_collision(wall_collisions[i].tn, wall_collisions[i].td)}

\* hit i is no later than any other collected hit that is not immediate
is_closest_hit(i) ==
  \A j \in non_immediate_hits :
    wall_collisions[i].tn * wall_collisions[j].td <= wall_collisions[j].tn * wall_collisions[i].td

\* the displacement from the position of the molecule to collected hit i
displacement_to_hit(i) ==
  hit_pos(wall_collisions[i].tn, wall_collisions[i].td, wall_displacement)

\* C36: when a wall hit was collected, displacement_up_to_wall_collision is
\* the displacement to the collected hit of smallest collision time that is
\* not immediate.
C36_DisplacementUpToClosestHit ==
  (wall_pc = "collected" /\ wall_collisions # <<>>)
    => \E i \in non_immediate_hits :
         /\ is_closest_hit(i)
         /\ displacement_up_to_wall_collision = displacement_to_hit(i)

\* closest_hit_time is never written: it is TIME_FOREVER in every state
ClosestHitTimeStaysForever ==
  wall_pc \in {"collect", "collected"} => closest_hit.time = [tn |-> FOREVER, td |-> 1]

\* what is stored is the displacement to the hit collected last
DisplacementUpToLastHit ==
  (wall_pc = "collected" /\ wall_collisions # <<>>)
    => /\ non_immediate_hits # {}
       /\ \E i \in non_immediate_hits :
            /\ \A j \in non_immediate_hits : j <= i
            /\ displacement_up_to_wall_collision = displacement_to_hit(i)

\* two walls were hit, the closer one first in the list of the subpartition
CloserHitLastReached ==
  /\ wall_pc = "collected"
  /\ Len(wall_collisions) = 2
  /\ wall_collisions[2].tn * wall_collisions[1].td < wall_collisions[1].tn * wall_collisions[2].td
  /\ displacement_up_to_wall_collision = displacement_to_hit(2)

\* ---------------------------------------------------------------------------
\* Validity of the subpartition indices that the walker and the halo add
\* ---------------------------------------------------------------------------
\* index is the index of a subpartition of the partition (every axis index in
\* 0..N-1) that is subpart_indices or touches it
subpart_of_partition_next_to(index, subpart_indices) ==
  \E d \in [1..3 -> {0 - 1, 0, 1}] :
    /\ \A k \in 1..3 : is_subpart_index_in_range(subpart_indices[k] + d[k])
    /\ index = get_subpart_index_from_3d_indices(subpart_indices[1] + d[1],
                                                 subpart_indices[2] + d[2],
                                                 subpart_indices[3] + d[3])

halo_indices_valid(call) ==
  \A index \in call.added :
    /\ valid_subpart_index(index)
    /\ subpart_of_partition_next_to(index, call.subpart_indices)

\* C37: every index that the walker pushes and every index that a halo
\* insertion adds is the index of a subpartition of the partition, each axis
\* index in 0..N-1, also for a point in a subpartition at the partition border.
C37_AddedSubpartIndicesAreValid ==
  walker.pc # "idle" =>
    /\ \A i \in 1..Len(walker.visited) : valid_subpart_index(walker.visited[i])
    /\ \A i \in 1..Len(walker.halo) : halo_indices_valid(walker.halo[i])

\* the subpartitions the walker of collision_utils.inc itself pushes are valid
CollisionUtilWalkerPushesValid ==
  (walker.pc # "idle" /\ walker.version = "CollisionUtil")
    => \A i \in 1..Len(walker.visited) : valid_subpart_index(walker.visited[i])

\* no axis index of the subpartition is the first or the last of its axis
halo_away_from_border(call) ==
  \A k \in 1..3 :
    /\ call.subpart_indices[k] > 0
    /\ call.subpart_indices[k] < num_subpartitions_per_partition - 1

\* a halo insertion for a subpartition away from the border adds valid indices
HaloValidAwayFromBorder ==
  walker.pc # "idle" =>
    \A i \in 1..Len(walker.halo) :
      halo_away_from_border(walker.halo[i]) => halo_indices_valid(walker.halo[i])

HaloAwayFromBorderReached ==
  /\ walker.pc = "done"
  /\ walker.version = "CollisionUtil"
  /\ Len(walker.visited) > 0
  /\ \E i \in 1..Len(walker.halo) :
       /\ halo_away_from_border(walker.halo[i])
       /\ Cardinality(walker.halo[i].added) = 7

\* ---------------------------------------------------------------------------
\* The unimolecular actions of the partition calendar
\* ---------------------------------------------------------------------------
\* the kernel has stopped: exit(1) was called, or the last event of the run
\* is over
kernel_stopped ==
  \/ fatal
  \/ part_done /\ next_part(pc) = "end" /\ events_done + 1 >= MaxEvents

\* the position in diffuse_molecules: the part and the index of its loop
kernel_position == <<pc, idx>>

\* a step of the kernel seen at its position: every step of Next moves the
\* index of the running loop or enters the next part
KernelAdvances ==
  /\ ~kernel_stopped
  /\ pc' \in {"existing", "unimol", "new"}
  /\ idx' \in 1..(idx + 1)

\* the loops of diffuse_molecules and the scheduler go on: the kernel is
\* sequential code, and it takes its next step until it has stopped
SpecFair == Spec /\ WF_kernel_position(KernelAdvances)

\* every step of the kernel is such a step, and a kernel that has stopped
\* takes none
KernelStepsAdvance ==
  [][/\ ~kernel_stopped
     /\ kernel_position' # kernel_position
     /\ pc' \in {"existing", "unimol", "new"}
     /\ idx' \in 1..(idx + 1)]_vars

calendar_actions ==
  {calendar_for_unimol_rxs[i] : i \in 1..Len(calendar_for_unimol_rxs)}

\* the window of the running event holds the time
in_event_window(time) ==
  time >= event_time /\ time < event_time + diffusion_time_step

\* part 2) of the running event has handled the action of molecule id
handled_from_calendar(id) ==
  \E i \in 1..Len(handled) :
    /\ handled[i].src = "calendar"
    /\ handled[i].type = "UNIMOL_REACT"
    /\ handled[i].id = id
    /\ in_event_window(handled[i].scheduled_time)

\* the first time that no event of the run covers
run_end_time == MaxEvents * diffusion_time_step

\* C34: every unimolecular action put into the partition calendar is handled
\* in the event whose window holds its time (unless the run has stopped with
\* the fatal error), and an action leaves the calendar only after it was
\* handled in that event.
C34_CalendarActionsAreHandled ==
  /\ [][\A a \in calendar_actions :
          a \notin calendar_actions'
            => /\ in_event_window(a.scheduled_time)
               /\ handled_from_calendar(a.id)]_vars
  /\ \A id \in 1..MaxMolecules :
       (\E a \in calendar_actions : a.id = id /\ a.scheduled_time < run_end_time)
         ~> (fatal \/ handled_from_calendar(id))

\* an action that an earlier event put into the calendar was handled, its
\* molecule reacted, and the bucket is gone
C34_Witness ==
  /\ pc = "new"
  /\ events_done > 0
  /\ \E i \in 1..Len(handled) :
       /\ handled[i].src = "calendar"
       /\ handled[i].done
       /\ in_event_window(handled[i].scheduled_time)
       /\ handled[i].scheduled_time > event_time
  /\ \A a \in calendar_actions : ~in_event_window(a.scheduled_time)
\* ------------------------------------------------------------------------
\* Time carried by the diffuse action of a product of a bimolecular reaction
\* (outcome_products_random, called from diffuse_single_molecule)

product_diffuse_actions ==
  {i \in 1..Len(appended) : /\ appended[i].type = "DIFFUSE"
                            /\ appended[i].id \in last.products}

\* time of the fired collision from the start of the event: the start of the
\* mover's step plus tau = d / movelen2 times the duration of the step
collision_time_from_event_start ==
  LET collision == last.sorted[last.fired]
  IN  last.prev + floor_div(collision.d * last.rem, collision.movelen2)

bimolecular_fired == last.kind = "diffuse" /\ last.fired # 0

\* C35: the diffuse action queued for a product of a bimolecular reaction
\* carries the time of the collision measured from the start of the event
\* (start of the mover's step plus tau times the duration of the step), also
\* when the mover's step was shortened to its unimolecular time or the mover
\* was created inside the event.
C35_ProductActionCarriesCollisionTime ==
  bimolecular_fired =>
    \A i \in product_diffuse_actions :
      appended[i].scheduled_time = collision_time_from_event_start

\* what the code computes: the collision time counted back from the end of the
\* event, which is the collision time from the event start exactly when the
\* mover's step ends with the event
ProductActionCountsBackFromEventEnd ==
  bimolecular_fired =>
    \A i \in product_diffuse_actions :
      appended[i].scheduled_time =
        collision_time_from_event_start
          + (diffusion_time_step - (last.prev + last.rem))

\* a step that ends with the event carries the collision time
ProductActionCarriesCollisionTimeWhenNotShortened ==
  (bimolecular_fired /\ ~last.shortened) =>
    \A i \in product_diffuse_actions :
      appended[i].scheduled_time = collision_time_from_event_start

\* a reaction fired in a step that was shortened to the unimolecular time
ShortenedMoverFired ==
  /\ bimolecular_fired
  /\ last.shortened
  /\ last.prev + last.rem < diffusion_time_step
  /\ product_diffuse_actions # {}

====
